---- MODULE Spec2Model ----
(***************************************************************************)
(* Note engine, arpeggiator and preset store of the JWS-1 synthesizer      *)
(* (src/js/audio/note-engine.js, src/js/features/arpeggiator.js,           *)
(* src/js/features/presets.js with the sequencer, src/js/state/state.js,   *)
(* src/js/ui/*.js) and of its audio core (audio-core.js, effects.js).      *)
(*                                                                         *)
(* Units: times are milliseconds, relative to audioContext.currentTime of  *)
(* the call that schedules them; levels (sustain, waveform gains) are      *)
(* thousandths; scheduled gain targets are millionths (gain in thousandths *)
(* times sustain in thousandths), so the silence floor 0.001 is 1000.      *)
(***************************************************************************)
EXTENDS Integers, Sequences, FiniteSets, TLC

VARIABLES
    audioContext,         \* audio-core.js: TRUE once the AudioContext exists
    synthSettings,        \* state.js: the live Settings Tree
    defaultSynthSettings, \* state.js: JSON copy of the tree taken at load time
    sequencerData,        \* state.js: the 16-step Pattern
    presets,              \* presets.js: the four preset slots
    sharedRefs,           \* per slot, the nested objects it holds that the live state holds too
    activeNotes,          \* state.js: keys of the activeNotes Map, insertion order
    heldNotes,            \* state.js: the heldNotes Set
    globalId,             \* note-engine.js: the id counter
    arpNotes,             \* state.js: held note names, in press order
    arpIndex,             \* state.js: arpeggiator cursor
    lastArpNoteId,        \* state.js: id of the note the last tick triggered
    arpeggiatorInterval,  \* arpeggiator.js: TRUE while the variable holds a timer id
    arpTimers,            \* interval timers started by startArpeggiator and not cleared
    audioNodes,           \* audio-core.js, effects.js: the objects the module variables hold
    wetGain,              \* effects.js: target of each stage's wet gain, in thousandths
    audioContextRef,      \* drum-engine.js: TRUE once initDrumEngine has got the context
    isLoading,            \* drum-engine.js: the loading flag
    audioBuffers,         \* drum-engine.js: per kit, the sounds that have a decoded buffer
    pendingSamples,       \* drum-engine.js: the loadSample promises not settled yet
    currentNoteId,        \* keyboard.js: per key element, the id its press handler kept
    activeKeys,           \* keyboard.js: the key elements carrying the class 'active'
    timers,               \* pending setTimeout(() => stopNote(noteId)) of playNote
    lastDrumSound,        \* state.js: type of the drum sound triggered last
    sequencerIsPlaying,   \* sequencer: the play flag
    sequencerInterval,    \* sequencer: period of the interval timer in ms, 0 when null
    currentStep,          \* sequencer: the step cursor
    lastNotePlayed,       \* state.js: the note name the sequencer plays
    call,                 \* the operation invoked last, its arguments and outcome
    sched                 \* gain automation scheduled by the last playNote/stopNote

noteVars == <<activeNotes, heldNotes, globalId, timers, lastDrumSound>>
arpVars == <<arpNotes, arpIndex, lastArpNoteId, arpeggiatorInterval, arpTimers>>
storeVars == <<synthSettings, defaultSynthSettings, sequencerData, presets, sharedRefs>>
seqVars == <<sequencerIsPlaying, sequencerInterval, currentStep, lastNotePlayed>>
coreVars == <<audioContext, audioNodes, wetGain, audioContextRef, isLoading,
              audioBuffers, pendingSamples, currentNoteId, activeKeys>>
vars == <<coreVars, storeVars, noteVars, arpVars, seqVars, call, sched>>

----------------------------------------------------------------------------
(* Bounds of the model *)

\* The polyphony setting is 16 in state.js and no handler changes it; the
\* model scales it down and draws it from 1..MaxPolyphony at Init.
MaxPolyphony == 2
\* Cap on the id counter (the code's counter is unbounded).
MaxId == 3
\* Sequencer steps the user toggles are 0..MaxStep (the code has steps 0..15).
MaxStep == 0

----------------------------------------------------------------------------
(* Constants and tables *)

\* JavaScript values that are not finite numbers.
NaN == -1000001
JsNull == -1000002

\* The null a tonal playNote never returns; ids are <<note, counter>>.
Null == <<>>

\* utils/constants.js noteFrequencies, in hundredths of a hertz.
noteFrequencies ==
    [C4 |-> 26163, Db4 |-> 27718, D4 |-> 29366, Eb4 |-> 31113, E4 |-> 32963,
     F4 |-> 34923, Gb4 |-> 36999, G4 |-> 39200, Ab4 |-> 41530, A4 |-> 44000,
     Bb4 |-> 46616, B4 |-> 49388, C5 |-> 52325]

\* utils/constants.js waveformGains, in thousandths.
waveformGains == [sine |-> 800, square |-> 400, sawtooth |-> 500, triangle |-> 700]

\* note-engine.js playFmNote: const maxGain = 0.7
FmMaxGain == 700

\* The silence floor 0.001 as a gain in thousandths and as a target in millionths.
SilenceFloor == 1000

\* stopNote: releaseTime when immediate, and the extra delay before osc.stop
ImmediateRelease == 10
StopMargin == 100

availableEngines == <<"subtractive", "fm", "drum">>

\* note-engine.js drumMap: the name field of each entry
drumMap ==
    [C4 |-> "kick", Db4 |-> "hat", D4 |-> "snare", Eb4 |-> "hat", E4 |-> "clap",
     F4 |-> "tom", Gb4 |-> "tom", G4 |-> "tom", Ab4 |-> "clap", A4 |-> "cymbal",
     Bb4 |-> "clap", B4 |-> "cymbal", C5 |-> "cymbal"]

\* initAudioEngine: the steps at which the platform can make it throw
\* ("AudioContext": no audio API; "createGain": the first node construction;
\* "initEffects": the effects chain, e.g. a connect() that returns undefined)
FailPoints == {"AudioContext", "createGain", "initEffects"}

\* audio-core.js before initAudioEngine: every module variable is undefined (0),
\* effects.js effectsChain is {} (0), the LFO was never started
NoNodes ==
    [context |-> 0, masterGainNode |-> 0, analyserNode |-> 0, lfo |-> 0,
     lfoGain |-> 0, lfoStarts |-> 0, effectsChain |-> 0]

\* effects.js initEffects: reverbWet, delayWet and distortionWet start at gain 0
\* (the record also stands for the time before the chain exists)
NoWet == [reverb |-> 0, delay |-> 0, distortion |-> 0]

\* toggleEffect: wetGain = reverb ? 0.3 : (delay ? 0.25 : 0.6), in thousandths
WetLevel == [reverb |-> 300, delay |-> 250, distortion |-> 600]

\* Notes the environment plays; "H9" is a name missing from noteFrequencies.
PlayedNotes == {"C4", "E4"}
UnknownNote == "H9"

\* Preset slots the user saves to and loads from (the code has slots 0..3)
UsedSlots == {0, 3}

----------------------------------------------------------------------------
(* The Settings Tree (state.js) and its JSON copy *)

\* state.js synthSettings as written in the source, with polyphony scaled to p.
InitialSettings(p) ==
    [engine |-> "subtractive",
     subtractive |-> [waveform |-> "sine", attack |-> 20, decay |-> 100,
                      sustain |-> 800, release |-> 500, octaveShift |-> 0],
     fm |-> [algorithm |-> "series", ratio |-> 1400, modIndex |-> 250,
             attack |-> 10, decay |-> 1000, sustain |-> 500, release |-> 800,
             octaveShift |-> 0],
     drum |-> [kit |-> "acoustic",
               kits |-> [acoustic |-> [kickTune |-> 300, snareSnap |-> 500,
                                       hatDecay |-> 60, tomPitch |-> 500,
                                       cymbalDecay |-> 800],
                         electronic |-> [kickTune |-> 100, snareSnap |-> 800,
                                         hatDecay |-> 100, tomPitch |-> 200,
                                         cymbalDecay |-> 1200],
                         lofi |-> [kickTune |-> 600, snareSnap |-> 300,
                                   hatDecay |-> 80, tomPitch |-> 600,
                                   cymbalDecay |-> 600],
                         ethnic |-> [kickTune |-> 800, snareSnap |-> 600,
                                     hatDecay |-> 40, tomPitch |-> 800,
                                     cymbalDecay |-> 700]],
               octaveShift |-> 0],
     polyphony |-> p,
     filterCutoff |-> 18000,
     lfoRate |-> 5,
     lfoDepth |-> 0,
     faderMode |-> "cutoff",
     sequencerTempo |-> 120,
     effects |-> [reverb |-> FALSE, delay |-> FALSE, distortion |-> FALSE],
     performance |-> [hold |-> FALSE, arp |-> FALSE, arpDirection |-> "up"]]

\* Array(16).fill(false), indexed 0..15
BlankPattern == [i \in 0..15 |-> FALSE]

\* JSON.stringify of a number: NaN (and Infinity) become null.
JsonNumber(v) == IF v = NaN THEN JsNull ELSE v

\* JSON.parse(JSON.stringify(block)) of an engine parameter block: the same
\* keys; strings are kept, numbers go through JsonNumber, kits are nested.
JsonBlock(b) ==
    [f \in DOMAIN b |->
        IF f \in {"waveform", "algorithm", "kit"} THEN b[f]
        ELSE IF f = "kits"
             THEN [k \in DOMAIN b.kits |->
                      [g \in DOMAIN b.kits[k] |-> JsonNumber(b.kits[k][g])]]
             ELSE JsonNumber(b[f])]

\* JSON.parse(JSON.stringify(tree)): a deep copy with exactly the keys the tree
\* has at that moment (a "sequencer" key left by an earlier load included).
JsonCopy(t) ==
    [k \in DOMAIN t |->
        IF k \in {"subtractive", "fm", "drum"} THEN JsonBlock(t[k])
        ELSE IF k \in {"polyphony", "filterCutoff", "lfoRate", "lfoDepth",
                       "sequencerTempo"} THEN JsonNumber(t[k])
        ELSE t[k]]

\* Object.assign(target, source): every own key of source is written to target,
\* keys only target has are kept.
ObjectAssign(target, source) ==
    [k \in DOMAIN target \cup DOMAIN source |->
        IF k \in DOMAIN source THEN source[k] ELSE target[k]]

\* presets[index] = JSON copy of the tree; presets[index].sequencer = [...pattern]
Snapshot(t, pattern) ==
    ObjectAssign(JsonCopy(t), [sequencer |-> pattern])

\* const presets = [{}, {}, {}, {}]; the empty object is the empty record
EmptySlot == <<>>

----------------------------------------------------------------------------
(* Note engine (note-engine.js).  The operators work on a bundle            *)
(* [an, hn, gid, sched, threw, timers, drum]: the registry keys in          *)
(* insertion order, the held set, the id counter, the automation scheduled  *)
(* so far by the running handler, whether an exception is propagating, the  *)
(* pending auto-stop timers and the drum sound triggered last.              *)

Range(f) == {f[i] : i \in DOMAIN f}

Remove(seq, x) == SelectSeq(seq, LAMBDA y : y # x)

Max(a, b) == IF a >= b THEN a ELSE b

\* Variant for C18: playNote without the note-name test
NoteKnownAlways(note) == TRUE

\* !noteFrequencies[note]
NoteKnown(note) == note \in DOMAIN noteFrequencies

\* activeNotes.has(noteId)
IsActive(an, id) == id \in Range(an)

\* Variant for C4: the hold test left out
HoldSuppressesNever(s, hn, id, immediate) == FALSE

\* Variant for C5: the hold test without "&& !immediate"
HoldSuppressesImmediate(s, hn, id, immediate) ==
    s.performance.hold /\ id \in hn

\* synthSettings.performance.hold && heldNotes.has(noteId) && !immediate
HoldSuppresses(s, hn, id, immediate) ==
    s.performance.hold /\ id \in hn /\ ~immediate

\* immediate ? 0.01 : params.release, params = synthSettings[synthSettings.engine].
\* A block without a release field yields undefined, and now + undefined is NaN;
\* a null left by a JSON copy counts as 0.
ReleaseTime(s, immediate) ==
    IF immediate THEN ImmediateRelease
    ELSE LET params == s[s.engine] IN
         IF "release" \notin DOMAIN params THEN NaN
         ELSE IF params.release = JsNull THEN 0
         ELSE params.release

\* The three gain calls and the node stops of stopNote for a finite release time.
ReleaseSchedule(id, releaseTime) ==
    << [kind |-> "cancelScheduledValues", node |-> id, time |-> 0],
       [kind |-> "setCurrentValueAtTime", node |-> id, time |-> 0],
       [kind |-> "exponentialRamp", node |-> id, value |-> SilenceFloor,
        time |-> releaseTime],
       [kind |-> "stop", node |-> id, time |-> releaseTime + StopMargin] >>

\* Variant for C3: stopNote without the activeNotes.has guard; destructuring
\* activeNotes.get(noteId) of an unknown id throws
StopNoteUnguarded(N, s, id, immediate) ==
    IF HoldSuppresses(s, N.hn, id, immediate) THEN N
    ELSE IF ~IsActive(N.an, id) THEN [N EXCEPT !.threw = TRUE]
    ELSE [N EXCEPT !.sched = @ \o ReleaseSchedule(id, ReleaseTime(s, immediate)),
                   !.an = Remove(@, id),
                   !.hn = @ \ {id}]

\* Variant for C37: stopNote looking the note up by its name, so that any
\* registered note of that name is the one stopped
StopNoteByName(N, s, id, immediate) ==
    LET same == SelectSeq(N.an, LAMBDA y : y[1] = id[1]) IN
    IF same = <<>> THEN N
    ELSE IF HoldSuppresses(s, N.hn, Head(same), immediate) THEN N
    ELSE LET releaseTime == ReleaseTime(s, immediate) IN
         IF releaseTime = NaN
         THEN [N EXCEPT !.sched = @ \o SubSeq(ReleaseSchedule(Head(same), 0), 1, 2),
                        !.threw = TRUE]
         ELSE [N EXCEPT !.sched = @ \o ReleaseSchedule(Head(same), releaseTime),
                        !.an = Remove(@, Head(same)),
                        !.hn = @ \ {Head(same)}]

\* Variant for C35: stopNote without heldNotes.delete(noteId)
StopNoteKeepsHeld(N, s, id, immediate) ==
    IF ~IsActive(N.an, id) THEN N
    ELSE IF HoldSuppresses(s, N.hn, id, immediate) THEN N
    ELSE LET releaseTime == ReleaseTime(s, immediate) IN
         IF releaseTime = NaN
         THEN [N EXCEPT !.sched = @ \o SubSeq(ReleaseSchedule(id, 0), 1, 2),
                        !.threw = TRUE]
         ELSE [N EXCEPT !.sched = @ \o ReleaseSchedule(id, releaseTime),
                        !.an = Remove(@, id)]

\* stopNote(noteId, immediate).  exponentialRampToValueAtTime rejects a
\* non-finite end time with a TypeError, after the first two gain calls ran
\* and before the registry is touched.
StopNoteOn(N, s, id, immediate) ==
    IF ~IsActive(N.an, id) THEN N
    ELSE IF HoldSuppresses(s, N.hn, id, immediate) THEN N
    ELSE LET releaseTime == ReleaseTime(s, immediate) IN
         IF releaseTime = NaN
         THEN [N EXCEPT !.sched = @ \o SubSeq(ReleaseSchedule(id, 0), 1, 2),
                        !.threw = TRUE]
         ELSE [N EXCEPT !.sched = @ \o ReleaseSchedule(id, releaseTime),
                        !.an = Remove(@, id),
                        !.hn = @ \ {id}]

\* notesToStop.forEach((_, noteId) => stopNote(noteId, immediate)) over a
\* snapshot; an exception ends the loop.
RECURSIVE StopEach(_, _, _, _)
StopEach(N, s, ids, immediate) ==
    IF ids = <<>> \/ N.threw THEN N
    ELSE StopEach(StopNoteOn(N, s, Head(ids), immediate), s, Tail(ids), immediate)

\* stopAllNotes(immediate)
StopAllNotesOn(N, s, immediate) == StopEach(N, s, N.an, immediate)

\* Variant for C15: one peak gain for every waveform
MaxGainFlat(s) == FmMaxGain

\* waveformGains[params.waveform] || 0.8 for subtractive, 0.7 for fm
MaxGain(s) ==
    IF s.engine = "fm" THEN FmMaxGain
    ELSE IF s.subtractive.waveform \in DOMAIN waveformGains
         THEN waveformGains[s.subtractive.waveform]
         ELSE 800

\* The parameter block playSubtractiveNote/playFmNote read
EngineParams(s) == IF s.engine = "fm" THEN s.fm ELSE s.subtractive

\* Variant for C7: the sustain level without the Math.max floor
DecayTargetNoFloor(maxGain, sustain) == maxGain * sustain

\* Math.max(sustainLevel, 0.001), sustainLevel = maxGain * params.sustain
DecayTarget(maxGain, sustain) == Max(maxGain * sustain, SilenceFloor)

\* The gain automation of playSubtractiveNote / playFmNote
AttackSchedule(s, id) ==
    LET params == EngineParams(s)
        maxGain == MaxGain(s)
    IN << [kind |-> "cancelScheduledValues", node |-> id, time |-> 0],
          [kind |-> "setValueAtTime", node |-> id, value |-> SilenceFloor,
           time |-> 0],
          [kind |-> "exponentialRamp", node |-> id, value |-> maxGain * 1000,
           time |-> params.attack],
          [kind |-> "exponentialRamp", node |-> id,
           value |-> DecayTarget(maxGain, params.sustain),
           time |-> params.attack + params.decay] >>

\* Variant for C1: ">" in place of ">="
AtCeilingStrict(an, s) == Len(an) > s.polyphony

\* activeNotes.size >= synthSettings.polyphony
AtCeiling(an, s) == Len(an) >= s.polyphony

\* Variant for C2: the most recent key instead of the first
NewestNote(an) == an[Len(an)]

\* activeNotes.keys().next().value
OldestNote(an) == Head(an)

\* Variant for C20: the counter read without the increment
NextIdReused(gid) == gid

\* ++globalId
NextId(gid) == gid + 1

\* Variant for C19: a drum trigger that draws an id from the counter
DrumTriggerCounted(N, note) == [N EXCEPT !.gid = @ + 1]

\* The drum branch of playNote: playDrumSound returns at once because nothing
\* calls initDrumEngine (audioContextRef stays null); setLastDrumSound(name)
DrumTrigger(N, note) ==
    IF note \in DOMAIN drumMap THEN [N EXCEPT !.drum = drumMap[note]] ELSE N

\* Whether the engine's play function can connect its nodes: playSubtractiveNote
\* calls getLfoGain().connect and connect(getMasterGainNode()), playFmNote only
\* the latter; an undefined node makes either throw a TypeError
CanConnect(s, nodes) ==
    /\ nodes.masterGainNode # 0
    /\ s.engine = "fm" \/ nodes.lfoGain # 0

\* if (duration) setTimeout(() => stopNote(noteId), duration * 1000), with the
\* duration in ms; 0 stands for the default null
TimerFor(tm, noteId, duration) ==
    IF duration # 0 THEN tm \cup {[id |-> noteId, delay |-> duration]} ELSE tm

\* playNote(note, duration): the bundle afterwards and the value returned.
PlayNoteOn(N, s, ctx, nodes, note, duration) ==
    IF ~ctx \/ ~NoteKnown(note) THEN [N |-> N, ret |-> Null]
    ELSE IF s.engine = "drum" THEN [N |-> DrumTrigger(N, note), ret |-> Null]
    ELSE LET N1 == IF AtCeiling(N.an, s)
                   THEN StopNoteOn(N, s, OldestNote(N.an), TRUE)
                   ELSE N
             N2 == [N1 EXCEPT !.gid = NextId(@)]
             noteId == <<note, N2.gid>>
         IN IF N1.threw THEN [N |-> N1, ret |-> Null]
            ELSE IF ~CanConnect(s, nodes)
                 THEN [N |-> [N2 EXCEPT !.threw = TRUE], ret |-> Null]
            ELSE [N |-> [N2 EXCEPT !.sched = @ \o AttackSchedule(s, noteId),
                                   !.an = Append(@, noteId),
                                   !.hn = IF s.performance.hold
                                          THEN @ \cup {noteId} ELSE @,
                                   !.timers = TimerFor(@, noteId, duration)],
                  ret |-> noteId]

----------------------------------------------------------------------------
(* Arpeggiator (arpeggiator.js), on a bundle [notes, index, last, interval,  *)
(* live]                                                                    *)

\* startArpeggiator(): the guard, setArpIndex(0) and setInterval
StartArpeggiatorOn(A) ==
    IF A.interval THEN A
    ELSE [A EXCEPT !.index = 0, !.interval = TRUE, !.live = @ + 1]

\* Variant for C29: stopArpeggiator without the closing stopAllNotes(true)
StopArpeggiatorLeavesNotes(N, A, s) ==
    IF ~A.interval THEN [N |-> N, A |-> A]
    ELSE [N |-> IF A.last # Null THEN StopNoteOn(N, s, A.last, TRUE) ELSE N,
          A |-> [notes |-> <<>>, index |-> 0, last |-> Null, interval |-> FALSE,
                 live |-> A.live - 1]]

\* Variant for C30: stopArpeggiator without setArpNotes([])
StopArpeggiatorKeepsList(N, A, s) ==
    IF ~A.interval THEN [N |-> N, A |-> A]
    ELSE LET N1 == IF A.last # Null THEN StopNoteOn(N, s, A.last, TRUE) ELSE N
         IN [N |-> StopAllNotesOn(N1, s, TRUE),
             A |-> [A EXCEPT !.index = 0, !.last = Null, !.interval = FALSE,
                             !.live = @ - 1]]

\* stopArpeggiator(): the pair of bundles afterwards
StopArpeggiatorOn(N, A, s) ==
    IF ~A.interval THEN [N |-> N, A |-> A]
    ELSE LET N1 == IF A.last # Null THEN StopNoteOn(N, s, A.last, TRUE) ELSE N
             N2 == StopAllNotesOn(N1, s, TRUE)
         IN [N |-> N2,
             A |-> [notes |-> <<>>, index |-> 0, last |-> Null,
                    interval |-> FALSE, live |-> A.live - 1]]

\* [...arpNotes].sort((a, b) => noteFrequencies[a] - noteFrequencies[b])
RECURSIVE SortedNotes(_)
SortedNotes(notes) ==
    IF notes = <<>> THEN <<>>
    ELSE LET lowest == CHOOSE n \in Range(notes) :
                           \A m \in Range(notes) :
                               noteFrequencies[n] <= noteFrequencies[m]
         IN <<lowest>> \o SortedNotes(Remove(notes, lowest))

\* sortedNotes[i] with a JavaScript index; out of range is undefined
NoteAt(sorted, i) ==
    IF i >= 0 /\ i < Len(sorted) THEN sorted[i + 1] ELSE "undefined"

\* Variant for C12: the list walked in the order the keys were pressed
NoteToPlayAsPressed(notes, index, direction) ==
    IF direction = "down"
    THEN NoteAt(notes, Len(notes) - 1 - index)
    ELSE NoteAt(notes, index)

\* The note a tick plays: sortedNotes[arpIndex], or counted from the end for 'down'
NoteToPlay(notes, index, direction) ==
    LET sortedNotes == SortedNotes(notes) IN
    IF direction = "down"
    THEN NoteAt(sortedNotes, Len(sortedNotes) - 1 - index)
    ELSE NoteAt(sortedNotes, index)

\* Variant for C27: the tick stopping the previous note without the immediate
\* flag
ArpTickStopsGently(N, A, s, ctx, nodes) ==
    LET N1 == IF A.last # Null THEN StopNoteOn(N, s, A.last, FALSE) ELSE N IN
    IF A.notes = <<>> \/ N1.threw
    THEN [N |-> N1, A |-> A, note |-> "", ret |-> Null]
    ELSE LET noteToPlay == NoteToPlay(A.notes, A.index, s.performance.arpDirection)
             played == PlayNoteOn(N1, s, ctx, nodes, noteToPlay, 0)
         IN [N |-> played.N,
             A |-> IF played.N.threw THEN A
                   ELSE [A EXCEPT !.last = played.ret,
                                  !.index = (A.index + 1) % Len(A.notes)],
             note |-> noteToPlay, ret |-> played.ret]

\* The interval callback of startArpeggiator: the pair of bundles afterwards
\* the note name handed to playNote ("" when the list is empty) and the value
\* playNote returned
ArpTickOn(N, A, s, ctx, nodes) ==
    LET N1 == IF A.last # Null THEN StopNoteOn(N, s, A.last, TRUE) ELSE N IN
    IF A.notes = <<>> \/ N1.threw
    THEN [N |-> N1, A |-> A, note |-> "", ret |-> Null]
    ELSE LET noteToPlay == NoteToPlay(A.notes, A.index, s.performance.arpDirection)
             played == PlayNoteOn(N1, s, ctx, nodes, noteToPlay, 0)
         IN [N |-> played.N,
             A |-> IF played.N.threw THEN A
                   ELSE [A EXCEPT !.last = played.ret,
                                  !.index = (A.index + 1) % Len(A.notes)],
             note |-> noteToPlay, ret |-> played.ret]

\* addToArp(note)
AddToArpOn(notes, note) ==
    IF note \in Range(notes) THEN notes ELSE Append(notes, note)

\* The arpeggiator branch of keyboard.js stopNoteHandler for the key of note:
\* setArpNotes(arpNotes.filter(n => n !== note)), and stopNote(lastArpNoteId,
\* true) when the list has become empty; the cursor and the id are left alone
RemoveFromArpOn(N, A, s, note) ==
    LET newArpNotes == Remove(A.notes, note) IN
    [N |-> IF newArpNotes = <<>> /\ A.last # Null
           THEN StopNoteOn(N, s, A.last, TRUE)
           ELSE N,
     A |-> [A EXCEPT !.notes = newArpNotes]]

----------------------------------------------------------------------------
(* Preset store (presets.js) *)

\* savePreset(index): the slots afterwards
SavePresetOn(slots, t, pattern, index) ==
    [slots EXCEPT ![index] = Snapshot(t, pattern)]

\* Object.keys(presetToLoad).length === 0
SlotIsEmpty(slot) == DOMAIN slot = {}

\* The tree after loadPreset: an empty slot leaves it alone, a saved slot is
\* assigned key by key from a JSON copy of the slot
LoadedSettings(t, slot) ==
    IF SlotIsEmpty(slot) THEN t
    ELSE ObjectAssign(t, JsonCopy(slot))

\* The pattern after loadPreset
LoadedPattern(slot) ==
    IF SlotIsEmpty(slot) THEN BlankPattern
    ELSE IF "sequencer" \in DOMAIN slot THEN slot.sequencer
    ELSE BlankPattern

\* The values of the live state that are objects a copy could hold by
\* reference: the five nested objects of the Settings Tree, and "sequencer" for
\* the live pattern array as the sequencer entry of a slot
TreeRefKeys == {"subtractive", "fm", "drum", "effects", "performance"}

\* Variant for C23: the slot built as a one-level copy ({...synthSettings})
\* with the pattern array stored itself
SnapshotRefsShallow(t) == (DOMAIN t \cap TreeRefKeys) \cup {"sequencer"}

\* The objects a slot shares with the live state right after savePreset:
\* JSON.parse(JSON.stringify(synthSettings)) builds every nested object anew
\* and [...sequencerData] is a new array
SnapshotRefs(t) == {}

\* The objects the live state shares with the slot right after loadPreset:
\* the tree is assigned from a JSON copy of the slot and the pattern is a
\* spread copy of the slot's array
LoadedRefs(slot) == {}

\* loadPreset and the sharing: Object.assign and setSequencerData put new
\* objects into the live state, so a slot that held a replaced live object
\* holds a live object no longer; an empty slot replaces the pattern only
RefsAfterLoad(refs, slot, index) ==
    LET replaced == IF SlotIsEmpty(slot) THEN {"sequencer"}
                    ELSE (DOMAIN slot \cap TreeRefKeys) \cup {"sequencer"}
    IN [k \in DOMAIN refs |->
           IF k = index /\ ~SlotIsEmpty(slot)
           THEN (refs[k] \ replaced) \cup LoadedRefs(slot)
           ELSE refs[k] \ replaced]

\* A write into a nested object of the live state (performance[type] = ...,
\* sequencerData[i] = ...), as seen through every slot holding that object
WriteThrough(slots, refs, key, value) ==
    [k \in DOMAIN slots |->
        IF key \in refs[k] THEN [slots[k] EXCEPT ![key] = value] ELSE slots[k]]

\* Variant for C38: loadPreset without "if (arp) stopArpeggiator()"
LoadPresetStopsNotesOnly(N, A, s) ==
    [N |-> StopAllNotesOn(N, s, TRUE), A |-> A]

\* Variant for C10: stopAllNotes() without the immediate flag, and the
\* arpeggiator left alone
LoadPresetStopsGently(N, A, s) ==
    [N |-> StopAllNotesOn(N, s, FALSE), A |-> A]

\* stopAllNotes(true) and stopArpeggiator() at the head of loadPreset
LoadPresetStops(N, A, s) ==
    LET N1 == StopAllNotesOn(N, s, TRUE) IN
    IF N1.threw THEN [N |-> N1, A |-> A]
    ELSE IF s.performance.arp THEN StopArpeggiatorOn(N1, A, s)
    ELSE [N |-> N1, A |-> A]

----------------------------------------------------------------------------
(* Sequencer (the second half of presets.js), on a bundle                   *)
(* [playing, interval, step]                                                *)

\* (60 / synthSettings.sequencerTempo) * 1000 / 4, in ms
TickInterval(s) == ((60 * 1000) \div s.sequencerTempo) \div 4

\* Variant for C14: the duration of one tick
StepDurationOneTick(s) == ((60 * 1000) \div s.sequencerTempo) \div 4

\* 60 / synthSettings.sequencerTempo / 2, in ms
StepDuration(s) == ((60 * 1000) \div s.sequencerTempo) \div 2

\* toggleSequencer()
ToggleSequencerOn(Q, s) ==
    IF ~Q.playing
    THEN [playing |-> TRUE, interval |-> TickInterval(s), step |-> 0]
    ELSE [Q EXCEPT !.playing = FALSE, !.interval = 0]

\* Variant for C13: the pattern read at the step after the cursor
StepEnabledAfterAdvance(pattern, step) == pattern[(step + 1) % 16]

\* sequencerData[currentStep]
StepEnabled(pattern, step) == pattern[step]

\* sequencerLoop(): the bundles afterwards, the note name handed to playNote
\* ("" when the step is off) and the value playNote returned; an exception
\* leaves before the cursor is advanced
SequencerLoopOn(N, Q, s, ctx, nodes, pattern, last) ==
    IF StepEnabled(pattern, Q.step)
    THEN LET played == PlayNoteOn(N, s, ctx, nodes, last, StepDuration(s)) IN
         [N |-> played.N,
          Q |-> IF played.N.threw THEN Q
                ELSE [Q EXCEPT !.step = (Q.step + 1) % 16],
          note |-> last, ret |-> played.ret]
    ELSE [N |-> N, Q |-> [Q EXCEPT !.step = (Q.step + 1) % 16],
          note |-> "", ret |-> Null]

----------------------------------------------------------------------------
(* Audio core (audio-core.js, effects.js).  A field of the nodes record is  *)
(* the serial number of the object the module variable holds, 0 when it is  *)
(* undefined; lfoStarts counts the lfo.start() calls and effectsChain the   *)
(* chains initEffects has assigned.                                         *)

\* The try block of initAudioEngine with the step failAt throwing ("" for
\* none): what was assigned before the throw stays assigned, the catch only
\* reports
BuildAudio(nodes, failAt) ==
    IF failAt = "AudioContext"
    THEN [ctx |-> FALSE, nodes |-> nodes, caught |-> TRUE]
    ELSE LET n1 == [nodes EXCEPT !.context = @ + 1]
             n2 == [n1 EXCEPT !.masterGainNode = @ + 1, !.analyserNode = @ + 1,
                              !.lfo = @ + 1, !.lfoGain = @ + 1,
                              !.lfoStarts = @ + 1]
         IN IF failAt = "createGain"
            THEN [ctx |-> TRUE, nodes |-> n1, caught |-> TRUE]
            ELSE IF failAt = "initEffects"
                 THEN [ctx |-> TRUE, nodes |-> n2, caught |-> TRUE]
                 ELSE [ctx |-> TRUE,
                       nodes |-> [n2 EXCEPT !.effectsChain = @ + 1],
                       caught |-> FALSE]

\* Variant for C16: initAudioEngine without "if (audioContext) return"
InitAudioEngineUnguarded(ctx, nodes, failAt) == BuildAudio(nodes, failAt)

\* initAudioEngine()
InitAudioEngineOn(ctx, nodes, failAt) ==
    IF ctx THEN [ctx |-> ctx, nodes |-> nodes, caught |-> FALSE]
    ELSE BuildAudio(nodes, failAt)

\* The wet gains after initAudioEngine: a chain initEffects has just built has
\* its three wet gains at 0
WetAfterInit(wet, nodes, built) ==
    IF built.effectsChain # nodes.effectsChain THEN NoWet ELSE wet

\* toggleEffect(effectType): setTargetAtTime(isActive ? wetGain : 0, now, 0.1)
\* on the stage's wet gain; nothing without a context or without the stage
ToggleEffectOn(wet, s, ctx, nodes, effectType) ==
    IF ~ctx THEN wet
    ELSE IF nodes.effectsChain = 0 THEN wet
    ELSE [wet EXCEPT ![effectType] =
             IF s.effects[effectType] THEN WetLevel[effectType] ELSE 0]

\* ['reverb', 'delay', 'distortion'].forEach(effect => toggleEffect(effect))
ReapplyEffects(wet, s, ctx, nodes) ==
    ToggleEffectOn(
        ToggleEffectOn(ToggleEffectOn(wet, s, ctx, nodes, "reverb"),
                       s, ctx, nodes, "delay"),
        s, ctx, nodes, "distortion")

----------------------------------------------------------------------------
(* State machine *)

NoteBundle ==
    [an |-> activeNotes, hn |-> heldNotes, gid |-> globalId,
     sched |-> <<>>, threw |-> FALSE, timers |-> timers, drum |-> lastDrumSound]

ArpBundle ==
    [notes |-> arpNotes, index |-> arpIndex, last |-> lastArpNoteId,
     interval |-> arpeggiatorInterval, live |-> arpTimers]

SeqBundle ==
    [playing |-> sequencerIsPlaying, interval |-> sequencerInterval,
     step |-> currentStep]

SetNotes(N) ==
    /\ activeNotes' = N.an
    /\ heldNotes' = N.hn
    /\ globalId' = N.gid
    /\ sched' = N.sched
    /\ timers' = N.timers
    /\ lastDrumSound' = N.drum

SetArp(A) ==
    /\ arpNotes' = A.notes
    /\ arpIndex' = A.index
    /\ lastArpNoteId' = A.last
    /\ arpeggiatorInterval' = A.interval
    /\ arpTimers' = A.live

SetSeq(Q) ==
    /\ sequencerIsPlaying' = Q.playing
    /\ sequencerInterval' = Q.interval
    /\ currentStep' = Q.step

Call(op, note, id, immediate, slot, ret, threw) ==
    [op |-> op, note |-> note, id |-> id, immediate |-> immediate,
     slot |-> slot, ret |-> ret, threw |-> threw]

Init ==
    /\ audioContext = FALSE
    /\ audioNodes = NoNodes
    /\ wetGain = NoWet
    /\ audioContextRef = FALSE
    /\ isLoading = FALSE
    /\ audioBuffers = <<>>
    /\ pendingSamples = {}
    /\ currentNoteId = [k \in DOMAIN noteFrequencies |-> Null]
    /\ activeKeys = {}
    /\ \E p \in 1..MaxPolyphony :
          /\ synthSettings = InitialSettings(p)
          /\ defaultSynthSettings = JsonCopy(InitialSettings(p))
    /\ sequencerData = BlankPattern
    /\ presets = [i \in 0..3 |-> EmptySlot]
    /\ sharedRefs = [i \in 0..3 |-> {}]
    /\ activeNotes = <<>>
    /\ heldNotes = {}
    /\ globalId = 0
    /\ timers = {}
    /\ lastDrumSound = "null"
    /\ arpNotes = <<>>
    /\ arpIndex = 0
    /\ lastArpNoteId = Null
    /\ arpeggiatorInterval = FALSE
    /\ arpTimers = 0
    /\ sequencerIsPlaying = FALSE
    /\ sequencerInterval = 0
    /\ currentStep = 0
    /\ lastNotePlayed = "C4"
    /\ call = Call("none", "", Null, FALSE, 0, Null, FALSE)
    /\ sched = <<>>

\* initAudioEngine() with the step failAt throwing ("" for none); the call
\* record keeps the step whose exception the catch block reported
InitAudioEngineAt(failAt) ==
    /\ LET r == InitAudioEngineOn(audioContext, audioNodes, failAt) IN
       /\ audioContext' = r.ctx
       /\ audioNodes' = r.nodes
       /\ wetGain' = WetAfterInit(wetGain, audioNodes, r.nodes)
       /\ call' = Call("initAudioEngine", IF r.caught THEN failAt ELSE "",
                       Null, FALSE, 0, Null, FALSE)
    /\ sched' = <<>>
    /\ UNCHANGED <<audioContextRef, isLoading, audioBuffers,
                   pendingSamples, currentNoteId, activeKeys, storeVars,
                   noteVars, arpVars, seqVars>>

\* main.js initAudioOnInteraction: the first user gesture calls
\* initAudioEngine() once, the platform providing the audio API
InitAudioEngine ==
    /\ ~audioContext
    /\ InitAudioEngineAt("")

\* initAudioEngine() called again, or on a platform where one step throws
InitAudioEngineCall == \E failAt \in FailPoints \cup {""} : InitAudioEngineAt(failAt)

\* playNote(note)
PlayNote(note) ==
    /\ globalId < MaxId
    /\ LET played == PlayNoteOn(NoteBundle, synthSettings, audioContext,
                                audioNodes, note, 0)
       IN /\ SetNotes(played.N)
          /\ call' = Call("playNote", note, Null, FALSE, 0, played.ret, played.N.threw)
    /\ UNCHANGED <<coreVars, storeVars, arpVars, seqVars>>

\* stopNote(noteId, immediate)
StopNote(id, immediate) ==
    /\ LET N == StopNoteOn(NoteBundle, synthSettings, id, immediate) IN
       /\ SetNotes(N)
       /\ call' = Call("stopNote", "", id, immediate, 0, Null, N.threw)
    /\ UNCHANGED <<coreVars, storeVars, arpVars, seqVars>>

\* stopAllNotes(immediate)
StopAllNotes(immediate) ==
    /\ LET N == StopAllNotesOn(NoteBundle, synthSettings, immediate) IN
       /\ SetNotes(N)
       /\ call' = Call("stopAllNotes", "", Null, immediate, 0, Null, N.threw)
    /\ UNCHANGED <<coreVars, storeVars, arpVars, seqVars>>

\* The callback of the setTimeout playNote made for noteId: stopNote(noteId)
TimerFire ==
    \E tm \in timers :
        /\ LET N == StopNoteOn([NoteBundle EXCEPT !.timers = @ \ {tm}],
                               synthSettings, tm.id, FALSE)
           IN /\ SetNotes(N)
              /\ call' = Call("timer", "", tm.id, FALSE, 0, Null, N.threw)
        /\ UNCHANGED <<coreVars, storeVars, arpVars, seqVars>>

\* Variant for C24: the switch puts the block of the engine it leaves back to
\* the values of state.js
EngineBtnDiscards ==
    /\ LET currentIndex == CHOOSE i \in 1..3 : availableEngines[i] = synthSettings.engine
           nextIndex == (currentIndex % 3) + 1
       IN synthSettings' =
             [synthSettings EXCEPT
                 !.engine = availableEngines[nextIndex],
                 ![synthSettings.engine] = InitialSettings(1)[synthSettings.engine]]
    /\ call' = Call("engineBtn", "", Null, FALSE, 0, Null, FALSE)
    /\ sched' = <<>>
    /\ UNCHANGED <<coreVars, defaultSynthSettings, sequencerData, presets,
                   sharedRefs, noteVars, arpVars, seqVars>>

\* controls.js: click on the engine button
EngineBtn ==
    /\ LET currentIndex == CHOOSE i \in 1..3 : availableEngines[i] = synthSettings.engine
           nextIndex == (currentIndex % 3) + 1
       IN synthSettings' = [synthSettings EXCEPT !.engine = availableEngines[nextIndex]]
    /\ call' = Call("engineBtn", "", Null, FALSE, 0, Null, FALSE)
    /\ sched' = <<>>
    /\ UNCHANGED <<coreVars, defaultSynthSettings, sequencerData, presets,
                   sharedRefs, noteVars, arpVars, seqVars>>

\* controls.js: click on the hold button; turning hold off calls
\* stopAllNotes(false) and then setArpNotes([])
HoldBtn ==
    LET s == [synthSettings EXCEPT !.performance.hold = ~@]
        N == IF ~s.performance.hold
             THEN StopAllNotesOn(NoteBundle, s, FALSE)
             ELSE NoteBundle
    IN /\ synthSettings' = s
       /\ presets' = WriteThrough(presets, sharedRefs, "performance", s.performance)
       /\ SetNotes(N)
       /\ arpNotes' = IF ~s.performance.hold /\ ~N.threw THEN <<>> ELSE arpNotes
       /\ call' = Call("holdBtn", "", Null, FALSE, 0, Null, N.threw)
       /\ UNCHANGED <<coreVars, defaultSynthSettings, sequencerData, sharedRefs,
                      arpIndex, lastArpNoteId, arpeggiatorInterval, arpTimers,
                      seqVars>>

\* controls.js: click on the arp button (disabled while the engine is drum)
ArpBtn ==
    /\ synthSettings.engine # "drum"
    /\ LET s == [synthSettings EXCEPT !.performance.arp = ~@]
           r == IF s.performance.arp
                THEN [N |-> NoteBundle, A |-> StartArpeggiatorOn(ArpBundle)]
                ELSE StopArpeggiatorOn(NoteBundle, ArpBundle, s)
       IN /\ synthSettings' = s
          /\ presets' = WriteThrough(presets, sharedRefs, "performance", s.performance)
          /\ SetNotes(r.N)
          /\ SetArp(r.A)
          /\ call' = Call("arpBtn", "", Null, FALSE, 0, Null, r.N.threw)
    /\ UNCHANGED <<coreVars, defaultSynthSettings, sequencerData, sharedRefs, seqVars>>

\* controls.js: the listener of an effect button: the flag is inverted, then
\* toggleEffect(effectType).  When the click is the first user gesture, the
\* listener main.js put on the body runs after it (InitAudioEngine).
EffectBtn(effectType) ==
    /\ synthSettings' = [synthSettings EXCEPT !.effects[effectType] = ~@]
    /\ presets' = WriteThrough(presets, sharedRefs, "effects", synthSettings'.effects)
    /\ wetGain' = ToggleEffectOn(wetGain, synthSettings', audioContext, audioNodes,
                                 effectType)
    /\ call' = Call("effectBtn", effectType, Null, FALSE, 0, Null, FALSE)
    /\ sched' = <<>>
    /\ UNCHANGED <<audioContext, audioNodes, audioContextRef, isLoading, audioBuffers,
                   pendingSamples, currentNoteId, activeKeys, defaultSynthSettings,
                   sequencerData, sharedRefs, noteVars, arpVars, seqVars>>

\* controls.js: click on the arp-up or the arp-down button
ArpDirectionBtn(direction) ==
    /\ synthSettings' = [synthSettings EXCEPT !.performance.arpDirection = direction]
    /\ presets' = WriteThrough(presets, sharedRefs, "performance",
                               synthSettings'.performance)
    /\ call' = Call("arpDirectionBtn", direction, Null, FALSE, 0, Null, FALSE)
    /\ sched' = <<>>
    /\ UNCHANGED <<coreVars, defaultSynthSettings, sequencerData, sharedRefs,
                   noteVars, arpVars, seqVars>>

\* keyboard.js: a key pressed while the arpeggiator is on calls addToArp(note)
AddToArp(note) ==
    /\ synthSettings.engine # "drum"
    /\ synthSettings.performance.arp
    /\ arpNotes' = AddToArpOn(arpNotes, note)
    /\ call' = Call("addToArp", note, Null, FALSE, 0, Null, FALSE)
    /\ sched' = <<>>
    /\ UNCHANGED <<coreVars, storeVars, noteVars, arpIndex, lastArpNoteId,
                   arpeggiatorInterval, arpTimers, seqVars>>

\* keyboard.js: a key released (mouseup, mouseleave, touchend, keyup) while the
\* arpeggiator is on and hold is off; mouseleave fires for keys never pressed
StopNoteHandlerArp(note) ==
    /\ synthSettings.engine # "drum"
    /\ ~synthSettings.performance.hold
    /\ synthSettings.performance.arp
    /\ LET r == RemoveFromArpOn(NoteBundle, ArpBundle, synthSettings, note)
       IN /\ SetNotes(r.N)
          /\ SetArp(r.A)
          /\ call' = Call("stopNoteHandler", note, Null, FALSE, 0, Null, r.N.threw)
    /\ UNCHANGED <<coreVars, storeVars, seqVars>>

\* keyboard.js 21-35 startNoteHandler of the key element of note (mousedown,
\* touchstart); primary is FALSE for a mousedown of another button
StartNoteHandler(note, primary) ==
    /\ globalId < MaxId
    /\ IF synthSettings.engine = "drum"
       THEN /\ sched' = <<>>
            /\ UNCHANGED <<noteVars, arpVars, currentNoteId, activeKeys, lastNotePlayed>>
            /\ call' = Call("startNoteHandler", note, Null, FALSE, 0, Null, FALSE)
       ELSE /\ lastNotePlayed' = note
            /\ IF ~primary \/ note \in activeKeys
               THEN /\ sched' = <<>>
                    /\ UNCHANGED <<noteVars, arpVars, currentNoteId, activeKeys>>
                    /\ call' = Call("startNoteHandler", note, Null, FALSE, 0, Null,
                                    FALSE)
               ELSE IF synthSettings.performance.arp
               THEN /\ arpNotes' = AddToArpOn(arpNotes, note)
                    /\ activeKeys' = activeKeys \cup {note}
                    /\ sched' = <<>>
                    /\ UNCHANGED <<noteVars, arpIndex, lastArpNoteId,
                                   arpeggiatorInterval, arpTimers, currentNoteId>>
                    /\ call' = Call("startNoteHandler", note, Null, FALSE, 0, Null,
                                    FALSE)
               ELSE LET played == PlayNoteOn(NoteBundle, synthSettings, audioContext,
                                             audioNodes, note, 0)
                    IN /\ SetNotes(played.N)
                       /\ currentNoteId' = IF played.N.threw THEN currentNoteId
                                           ELSE [currentNoteId EXCEPT
                                                    ![note] = played.ret]
                       /\ activeKeys' = IF played.N.threw THEN activeKeys
                                        ELSE activeKeys \cup {note}
                       /\ UNCHANGED arpVars
                       /\ call' = Call("startNoteHandler", note, Null, FALSE, 0,
                                       played.ret, played.N.threw)
    /\ UNCHANGED <<audioContext, audioNodes, wetGain, audioContextRef, isLoading, audioBuffers,
                   pendingSamples, storeVars,
                   sequencerIsPlaying, sequencerInterval, currentStep>>

\* keyboard.js 37-55 stopNoteHandler of the key element of note (mouseup,
\* mouseleave, touchend); the call record keeps the id the key held
StopNoteHandler(note) ==
    /\ IF synthSettings.engine = "drum" \/ synthSettings.performance.hold
       THEN /\ sched' = <<>>
            /\ UNCHANGED <<noteVars, arpVars, currentNoteId, activeKeys>>
            /\ call' = Call("stopNoteHandler", note, currentNoteId[note], FALSE, 0,
                            Null, FALSE)
       ELSE /\ activeKeys' = activeKeys \ {note}
            /\ IF synthSettings.performance.arp
               THEN LET r == RemoveFromArpOn(NoteBundle, ArpBundle, synthSettings,
                                             note)
                    IN /\ SetNotes(r.N)
                       /\ SetArp(r.A)
                       /\ UNCHANGED currentNoteId
                       /\ call' = Call("stopNoteHandler", note, currentNoteId[note],
                                       FALSE, 0, Null, r.N.threw)
               ELSE LET N == IF currentNoteId[note] # Null
                             THEN StopNoteOn(NoteBundle, synthSettings,
                                             currentNoteId[note], FALSE)
                             ELSE NoteBundle
                    IN /\ SetNotes(N)
                       /\ currentNoteId' = IF N.threw THEN currentNoteId
                                           ELSE [currentNoteId EXCEPT ![note] = Null]
                       /\ UNCHANGED arpVars
                       /\ call' = Call("stopNoteHandler", note, currentNoteId[note],
                                       FALSE, 0, Null, N.threw)
    /\ UNCHANGED <<audioContext, audioNodes, wetGain, audioContextRef, isLoading, audioBuffers,
                   pendingSamples, storeVars, seqVars>>

\* keyboard.js 144-157 startNoteHandler, the version that plays the drum
\* sounds from the keys
StartNoteHandlerDrum(note, primary) ==
    /\ globalId < MaxId
    /\ lastNotePlayed' = note
    /\ IF ~primary \/ note \in activeKeys
       THEN /\ sched' = <<>>
            /\ UNCHANGED <<noteVars, arpVars, currentNoteId, activeKeys>>
            /\ call' = Call("startNoteHandler", note, Null, FALSE, 0, Null, FALSE)
       ELSE IF synthSettings.performance.arp /\ synthSettings.engine # "drum"
       THEN /\ arpNotes' = AddToArpOn(arpNotes, note)
            /\ activeKeys' = activeKeys \cup {note}
            /\ sched' = <<>>
            /\ UNCHANGED <<noteVars, arpIndex, lastArpNoteId, arpeggiatorInterval,
                           arpTimers, currentNoteId>>
            /\ call' = Call("startNoteHandler", note, Null, FALSE, 0, Null, FALSE)
       ELSE LET played == PlayNoteOn(NoteBundle, synthSettings, audioContext,
                                     audioNodes, note, 0)
            IN /\ SetNotes(played.N)
               /\ currentNoteId' = IF played.N.threw THEN currentNoteId
                                   ELSE [currentNoteId EXCEPT ![note] = played.ret]
               /\ activeKeys' = IF played.N.threw THEN activeKeys
                                ELSE activeKeys \cup {note}
               /\ UNCHANGED arpVars
               /\ call' = Call("startNoteHandler", note, Null, FALSE, 0, played.ret,
                               played.N.threw)
    /\ UNCHANGED <<audioContext, audioNodes, wetGain, audioContextRef, isLoading, audioBuffers,
                   pendingSamples, storeVars,
                   sequencerIsPlaying, sequencerInterval, currentStep>>

\* keyboard.js 165-186 stopNoteHandler of that version: under the drum engine
\* the class is removed and nothing else
StopNoteHandlerDrum(note) ==
    /\ IF synthSettings.performance.hold
       THEN /\ sched' = <<>>
            /\ UNCHANGED <<noteVars, arpVars, currentNoteId, activeKeys>>
            /\ call' = Call("stopNoteHandler", note, currentNoteId[note], FALSE, 0,
                            Null, FALSE)
       ELSE /\ activeKeys' = activeKeys \ {note}
            /\ IF synthSettings.engine = "drum"
               THEN /\ sched' = <<>>
                    /\ UNCHANGED <<noteVars, arpVars, currentNoteId>>
                    /\ call' = Call("stopNoteHandler", note, currentNoteId[note],
                                    FALSE, 0, Null, FALSE)
               ELSE IF synthSettings.performance.arp
               THEN LET r == RemoveFromArpOn(NoteBundle, ArpBundle, synthSettings,
                                             note)
                    IN /\ SetNotes(r.N)
                       /\ SetArp(r.A)
                       /\ UNCHANGED currentNoteId
                       /\ call' = Call("stopNoteHandler", note, currentNoteId[note],
                                       FALSE, 0, Null, r.N.threw)
               ELSE LET N == IF currentNoteId[note] # Null
                             THEN StopNoteOn(NoteBundle, synthSettings,
                                             currentNoteId[note], FALSE)
                             ELSE NoteBundle
                    IN /\ SetNotes(N)
                       /\ currentNoteId' = IF N.threw THEN currentNoteId
                                           ELSE [currentNoteId EXCEPT ![note] = Null]
                       /\ UNCHANGED arpVars
                       /\ call' = Call("stopNoteHandler", note, currentNoteId[note],
                                       FALSE, 0, Null, N.threw)
    /\ UNCHANGED <<audioContext, audioNodes, wetGain, audioContextRef, isLoading, audioBuffers,
                   pendingSamples, storeVars, seqVars>>

\* One firing of the arpeggiator interval
ArpTick ==
    /\ arpeggiatorInterval
    /\ globalId < MaxId
    /\ LET r == ArpTickOn(NoteBundle, ArpBundle, synthSettings, audioContext,
                          audioNodes)
       IN /\ SetNotes(r.N)
          /\ SetArp(r.A)
          /\ call' = Call("arpTick", r.note, Null, FALSE, 0, r.ret, r.N.threw)
    /\ UNCHANGED <<coreVars, storeVars, seqVars>>

\* savePreset(index)
SavePreset(index) ==
    /\ presets' = SavePresetOn(presets, synthSettings, sequencerData, index)
    /\ sharedRefs' = [sharedRefs EXCEPT ![index] = SnapshotRefs(synthSettings)]
    /\ call' = Call("savePreset", "", Null, FALSE, index, Null, FALSE)
    /\ sched' = <<>>
    /\ UNCHANGED <<coreVars, synthSettings, defaultSynthSettings, sequencerData,
                   noteVars, arpVars, seqVars>>

\* loadPreset(index); nothing in it touches the sequencer's timer or flag, and
\* the three toggleEffect calls follow the assignment of the tree
LoadPreset(index) ==
    LET stopped == LoadPresetStops(NoteBundle, ArpBundle, synthSettings)
        s == LoadedSettings(synthSettings, presets[index])
        A == IF s.performance.arp THEN StartArpeggiatorOn(stopped.A) ELSE stopped.A
    IN /\ SetNotes(stopped.N)
       /\ call' = Call("loadPreset", "", Null, FALSE, index, Null, stopped.N.threw)
       /\ IF stopped.N.threw
          THEN /\ SetArp(stopped.A)
               /\ UNCHANGED <<synthSettings, sequencerData, sharedRefs, wetGain>>
          ELSE /\ SetArp(A)
               /\ synthSettings' = s
               /\ sequencerData' = LoadedPattern(presets[index])
               /\ sharedRefs' = RefsAfterLoad(sharedRefs, presets[index], index)
               /\ wetGain' = ReapplyEffects(wetGain, s, audioContext, audioNodes)
       /\ UNCHANGED <<audioContext, audioNodes, audioContextRef, isLoading, audioBuffers,
                   pendingSamples, currentNoteId, activeKeys, defaultSynthSettings,
                      presets, seqVars>>

\* sequencer UI: click on step i
ToggleStep(i) ==
    /\ sequencerData' = [sequencerData EXCEPT ![i] = ~@]
    /\ presets' = WriteThrough(presets, sharedRefs, "sequencer", sequencerData')
    /\ call' = Call("toggleStep", "", Null, FALSE, i, Null, FALSE)
    /\ sched' = <<>>
    /\ UNCHANGED <<coreVars, synthSettings, defaultSynthSettings, sharedRefs,
                   noteVars, arpVars, seqVars>>

\* sequencer UI: click on the play button, toggleSequencer()
ToggleSequencer ==
    /\ SetSeq(ToggleSequencerOn(SeqBundle, synthSettings))
    /\ call' = Call("toggleSequencer", "", Null, FALSE, 0, Null, FALSE)
    /\ sched' = <<>>
    /\ UNCHANGED <<coreVars, storeVars, noteVars, arpVars, lastNotePlayed>>

\* One firing of the sequencer interval, sequencerLoop(); the call record
\* keeps the cursor the tick found
SequencerLoop ==
    /\ sequencerInterval # 0
    /\ StepEnabled(sequencerData, currentStep) => globalId < MaxId
    /\ LET r == SequencerLoopOn(NoteBundle, SeqBundle, synthSettings, audioContext,
                                audioNodes, sequencerData, lastNotePlayed)
       IN /\ SetNotes(r.N)
          /\ SetSeq(r.Q)
          /\ call' = Call("sequencerLoop", r.note, Null, FALSE, currentStep,
                          r.ret, r.N.threw)
    /\ UNCHANGED <<coreVars, storeVars, arpVars, lastNotePlayed>>

\* Ids a caller can hold: every id issued so far, and one never issued
KnownIds == {<<n, g>> : n \in PlayedNotes, g \in 1..MaxId}
StaleId == <<"C4", 0>>

\* The note engine and the controls that change what stopNote does
Next ==
    \/ InitAudioEngine
    \/ \E note \in PlayedNotes \cup {UnknownNote} : PlayNote(note)
    \/ \E id \in KnownIds \cup {StaleId}, immediate \in BOOLEAN : StopNote(id, immediate)
    \/ \E immediate \in BOOLEAN : StopAllNotes(immediate)
    \/ EngineBtn
    \/ HoldBtn

Spec == Init /\ [][Next]_vars

----------------------------------------------------------------------------
(* Properties of the note engine, checked under Spec *)

\* Some node was released by the last call and is no longer registered
ReleasedByLastCall(id) ==
    /\ \E i \in DOMAIN sched : sched[i].kind = "stop" /\ sched[i].node = id
    /\ ~IsActive(activeNotes, id)

\* C1: the registry never holds more notes than the polyphony setting, after
\* any sequence of playNote calls (and of the other operations).
C1_PolyphonyBound == Len(activeNotes) <= synthSettings.polyphony

\* C1 witness: playNote returned an id after stealing a voice and the registry
\* is exactly at the ceiling.
C1_Witness ==
    /\ call.op = "playNote"
    /\ call.ret # Null
    /\ Len(activeNotes) = synthSettings.polyphony
    /\ \E id \in KnownIds : ReleasedByLastCall(id)

\* C2: a playNote that finds the registry at the ceiling removes exactly the
\* first-inserted note and appends the new one; all other notes stay, in order,
\* whether or not the first note is held.
C2_FifoSteal ==
    [][(call'.op = "playNote" /\ call'.ret # Null /\ AtCeiling(activeNotes, synthSettings))
          => /\ activeNotes' = Append(Tail(activeNotes), call'.ret)
             /\ Head(activeNotes) \notin heldNotes'
             /\ heldNotes' \ {call'.ret} = heldNotes \ {Head(activeNotes)}]_vars

\* C2 witness: with hold on and a ceiling of at least two, playNote has stolen
\* a voice and every note left in the registry is held.
C2_Witness ==
    /\ call.op = "playNote"
    /\ call.ret # Null
    /\ synthSettings.performance.hold
    /\ synthSettings.polyphony >= 2
    /\ Len(activeNotes) = synthSettings.polyphony
    /\ heldNotes = Range(activeNotes)
    /\ \E id \in KnownIds : ReleasedByLastCall(id)

\* C3: stopNote on an id that is not registered changes no program variable
\* and does not throw.
C3_StopUnknownIsNoOp ==
    [][(call'.op = "stopNote" /\ ~IsActive(activeNotes, call'.id))
          => /\ UNCHANGED <<coreVars, storeVars, noteVars, arpVars, seqVars>>
             /\ sched' = <<>>
             /\ ~call'.threw]_vars

\* C3 witness: stopNote was called on an id whose counter playNote has already
\* passed and that is not registered, while other notes are registered;
\* nothing was scheduled.
C3_Witness ==
    /\ call.op = "stopNote"
    /\ call.id \in KnownIds
    /\ call.id[2] <= globalId
    /\ ~IsActive(activeNotes, call.id)
    /\ sched = <<>>
    /\ activeNotes # <<>>

\* C4: with hold on, stopNote(id, false) on a held id leaves the registry and
\* the held set as they were.
C4_HoldSuppressesRelease ==
    [][(call'.op = "stopNote" /\ ~call'.immediate /\ synthSettings.performance.hold
            /\ call'.id \in heldNotes)
          => UNCHANGED <<activeNotes, heldNotes>>]_vars

\* C4 witness: a non-immediate stopNote on a held id returned with hold on and
\* the id is still registered and held.
C4_Witness ==
    /\ call.op = "stopNote"
    /\ ~call.immediate
    /\ synthSettings.performance.hold
    /\ call.id \in heldNotes
    /\ IsActive(activeNotes, call.id)
    /\ sched = <<>>

\* C5: stopNote(id, true) on a registered id removes it from the registry and
\* from the held set and does not throw, whatever hold and the held set are.
C5_ImmediateAlwaysRemoves ==
    [][(call'.op = "stopNote" /\ call'.immediate /\ IsActive(activeNotes, call'.id))
          => /\ ~IsActive(activeNotes', call'.id)
             /\ call'.id \notin heldNotes'
             /\ ~call'.threw]_vars

\* C5 witness: with hold on, an immediate stopNote released a registered note
\* while other held notes stay.
C5_Witness ==
    /\ call.op = "stopNote"
    /\ call.immediate
    /\ synthSettings.performance.hold
    /\ ReleasedByLastCall(call.id)
    /\ heldNotes # {}

\* C6: stopNote on a registered id that hold does not suppress removes the id
\* from the registry and the held set and does not throw, for every engine.
C6_StopRemovesForEveryEngine ==
    [][(call'.op = "stopNote" /\ IsActive(activeNotes, call'.id)
            /\ ~HoldSuppresses(synthSettings, heldNotes, call'.id, call'.immediate))
          => /\ ~IsActive(activeNotes', call'.id)
             /\ call'.id \notin heldNotes'
             /\ ~call'.threw]_vars

C21_StopAllNotesStopsEach ==
    [][call'.op = "stopAllNotes" =>
          /\ call'.immediate => (activeNotes' = <<>> /\ heldNotes' = {})
          /\ ~call'.immediate =>
                Range(activeNotes') =
                    IF synthSettings.performance.hold
                    THEN Range(activeNotes) \cap heldNotes
                    ELSE {}]_vars

\* C22: playNote with a name of the note-frequency table, called before the
\* audio engine exists, creates the audio engine itself and, on a tonal engine,
\* registers the note in the same call.
C22_PlayNoteInitsLazily ==
    [][(call'.op = "playNote" /\ call'.note \in DOMAIN noteFrequencies
            /\ ~audioContext)
          => /\ audioContext'
             /\ synthSettings.engine # "drum"
                  => (call'.ret # Null /\ IsActive(activeNotes', call'.ret))]_vars

----------------------------------------------------------------------------
(* Envelope: playNote and stopNote over the settings the knobs can leave *)

\* knobs.js knobMapping: min and max of the envelope knobs of the tonal engines
knobMapping ==
    [subtractive |-> [attack |-> [min |-> 10, max |-> 2000],
                      sustain |-> [min |-> 0, max |-> 1000],
                      decay |-> [min |-> 10, max |-> 2000],
                      release |-> [min |-> 10, max |-> 4000]],
     fm |-> [attack |-> [min |-> 10, max |-> 2000],
             decay |-> [min |-> 10, max |-> 3000],
             release |-> [min |-> 10, max |-> 4000]]]

\* Variant for C32: the drag result bounded from above only
ClampAbove(config, newValue) ==
    IF newValue <= config.max THEN newValue ELSE config.max

\* Math.max(config.min, Math.min(config.max, newValue)) of handleDrag
Clamp(config, newValue) ==
    Max(config.min, IF newValue <= config.max THEN newValue ELSE config.max)

\* Raw drag results tried for each knob: below the range, just above zero, far
\* above the range
DragSamples == {-5, 1, 2, 5000}

\* The values handleDrag can store for a knob, and the value of state.js
KnobValues(engine, param) ==
    {Clamp(knobMapping[engine][param], v) : v \in DragSamples}
        \cup {InitialSettings(1)[engine][param]}

\* The waveforms of the instrument buttons (controls.js engineSettings)
Waveforms == {"sine", "square", "sawtooth", "triangle"}

\* Trees in which the envelope knobs of one tonal engine were dragged
EnvelopeSettings ==
    {[InitialSettings(MaxPolyphony) EXCEPT
          !.subtractive.waveform = w, !.subtractive.attack = a,
          !.subtractive.decay = d, !.subtractive.sustain = u] :
        w \in Waveforms,
        a \in KnobValues("subtractive", "attack"),
        d \in KnobValues("subtractive", "decay"),
        u \in KnobValues("subtractive", "sustain")}
    \cup
    {[InitialSettings(MaxPolyphony) EXCEPT !.fm.attack = a, !.fm.decay = d] :
        a \in KnobValues("fm", "attack"),
        d \in KnobValues("fm", "decay")}

\* Everything but the Settings Tree and its copy as the modules leave it at load
InitRest ==
    /\ audioContext = FALSE
    /\ audioNodes = NoNodes
    /\ wetGain = NoWet
    /\ audioContextRef = FALSE
    /\ isLoading = FALSE
    /\ audioBuffers = <<>>
    /\ pendingSamples = {}
    /\ currentNoteId = [k \in DOMAIN noteFrequencies |-> Null]
    /\ activeKeys = {}
    /\ sequencerData = BlankPattern
    /\ presets = [i \in 0..3 |-> EmptySlot]
    /\ sharedRefs = [i \in 0..3 |-> {}]
    /\ activeNotes = <<>>
    /\ heldNotes = {}
    /\ globalId = 0
    /\ timers = {}
    /\ lastDrumSound = "null"
    /\ arpNotes = <<>>
    /\ arpIndex = 0
    /\ lastArpNoteId = Null
    /\ arpeggiatorInterval = FALSE
    /\ arpTimers = 0
    /\ sequencerIsPlaying = FALSE
    /\ sequencerInterval = 0
    /\ currentStep = 0
    /\ lastNotePlayed = "C4"
    /\ call = Call("none", "", Null, FALSE, 0, Null, FALSE)
    /\ sched = <<>>

InitEnv ==
    /\ synthSettings \in EnvelopeSettings
    /\ defaultSynthSettings = JsonCopy(InitialSettings(MaxPolyphony))
    /\ InitRest

NextEnv ==
    \/ InitAudioEngine
    \/ PlayNote("C4")
    \/ \E g \in 1..MaxId, immediate \in BOOLEAN : StopNote(<<"C4", g>>, immediate)
    \/ EngineBtn

SpecEnv == InitEnv /\ [][NextEnv]_vars

\* The peak gain of the engine that plays: the waveform's table entry, 0.7 for fm
PeakGainOf(s) ==
    IF s.engine = "fm" THEN 700
    ELSE CASE s.subtractive.waveform = "sine" -> 800
           [] s.subtractive.waveform = "square" -> 400
           [] s.subtractive.waveform = "sawtooth" -> 500
           [] s.subtractive.waveform = "triangle" -> 700

\* C7: every exponential ramp that playNote or stopNote schedules has a target
\* of at least the silence floor 0.001 (never 0), and the decay target of a
\* playNote is max(peakGain * sustain, 0.001) for the engine that plays.
C7_EnvelopeFloor ==
    /\ \A i \in DOMAIN sched :
          sched[i].kind = "exponentialRamp" => sched[i].value >= 1000
    /\ (call.op = "playNote" /\ call.ret # Null) =>
          LET decayRamp == sched[Len(sched)]
              sustainLevel == PeakGainOf(synthSettings)
                                * synthSettings[synthSettings.engine].sustain
          IN /\ decayRamp.kind = "exponentialRamp"
             /\ decayRamp.value = IF sustainLevel > 1000 THEN sustainLevel ELSE 1000

\* C7 witness: a subtractive note was started with sustain 0 and its decay ramp
\* targets the floor.
C7_Witness ==
    /\ call.op = "playNote"
    /\ call.ret # Null
    /\ synthSettings.engine = "subtractive"
    /\ synthSettings.subtractive.sustain = 0
    /\ sched[Len(sched)].value = 1000

\* C24: a click on the engine button moves engine to the next of subtractive,
\* fm, drum (and back to subtractive) and changes nothing else: the three
\* parameter blocks and every global parameter keep their values, and engine
\* is one of the three values before and after.
C24_EngineSwitchKeepsBlocks ==
    [][/\ synthSettings.engine \in {"subtractive", "fm", "drum"}
       /\ synthSettings'.engine \in {"subtractive", "fm", "drum"}
       /\ call'.op = "engineBtn" =>
            /\ synthSettings'.engine =
                  CASE synthSettings.engine = "subtractive" -> "fm"
                    [] synthSettings.engine = "fm" -> "drum"
                    [] synthSettings.engine = "drum" -> "subtractive"
            /\ DOMAIN synthSettings' = DOMAIN synthSettings
            /\ \A k \in DOMAIN synthSettings \ {"engine"} :
                  synthSettings'[k] = synthSettings[k]
            /\ UNCHANGED <<defaultSynthSettings, sequencerData, presets>>]_vars

\* C24 witness: the engine button has brought the engine back to subtractive
\* from drum while the subtractive block holds dragged values and a sounding
\* note is registered.
C24_Witness ==
    /\ call.op = "engineBtn"
    /\ synthSettings.engine = "subtractive"
    /\ synthSettings.subtractive.attack = 2000
    /\ synthSettings.subtractive.sustain = 0
    /\ synthSettings.subtractive.waveform = "square"
    /\ activeNotes # <<>>

\* Trees in which the attack, decay and release knobs of one tonal engine were
\* dragged
InitRamp ==
    /\ \E e \in {"subtractive", "fm"},
          a \in KnobValues("subtractive", "attack"),
          d \in KnobValues("subtractive", "decay") \cup KnobValues("fm", "decay"),
          r \in KnobValues("subtractive", "release") :
          synthSettings = [InitialSettings(MaxPolyphony) EXCEPT
                              ![e].attack = a, ![e].decay = d, ![e].release = r]
    /\ defaultSynthSettings = JsonCopy(InitialSettings(MaxPolyphony))
    /\ InitRest

NextRamp ==
    \/ InitAudioEngine
    \/ PlayNote("C4")
    \/ \E g \in 1..MaxId, immediate \in BOOLEAN : StopNote(<<"C4", g>>, immediate)
    \/ EngineBtn

SpecRamp == InitRamp /\ [][NextRamp]_vars

\* C32: the gain automation a playNote schedules for the new note is at now,
\* then now + attack, then now + attack + decay, each strictly later than the
\* one before, for every attack and decay the knobs can store; and each hard
\* stop of a source node that a stopNote schedules is strictly later than the
\* end of the release ramp of the same note scheduled just before it.
C32_AutomationTimesIncrease ==
    /\ (call.op = "playNote" /\ call.ret # Null) =>
          LET n == Len(sched)
              params == synthSettings[synthSettings.engine]
          IN /\ n >= 4
             /\ sched[n - 2].kind = "setValueAtTime"
             /\ sched[n - 2].time = 0
             /\ sched[n - 1].time = params.attack
             /\ sched[n].time = params.attack + params.decay
             /\ sched[n - 2].time < sched[n - 1].time
             /\ sched[n - 1].time < sched[n].time
             /\ \A i \in (n - 2)..n : sched[i].node = call.ret
    /\ \A i \in DOMAIN sched :
          sched[i].kind = "stop" =>
             /\ i > 1
             /\ sched[i - 1].kind = "exponentialRamp"
             /\ sched[i - 1].node = sched[i].node
             /\ sched[i - 1].time < sched[i].time

\* C32 witness: with attack and decay at the lower end of their knobs, a
\* playNote at the voice ceiling has scheduled the release and the hard stop
\* of the stolen note and then the envelope of the new one.
C32_Witness ==
    /\ call.op = "playNote"
    /\ call.ret # Null
    /\ synthSettings[synthSettings.engine].attack = 10
    /\ synthSettings[synthSettings.engine].decay = 10
    /\ \E i \in DOMAIN sched : sched[i].kind = "stop"
    /\ sched[Len(sched)].time = 20

----------------------------------------------------------------------------
(* The single-engine note engine with mono mode (the second module of       *)
(* note-engine.js, lines 258-364) over the flat Settings Tree it reads       *)

\* The flat Settings Tree of the single-engine version, polyphony scaled to p
SingleSettings(p) ==
    [waveform |-> "sine", attack |-> 20, decay |-> 100, sustain |-> 800,
     release |-> 500, polyphony |-> p, octaveShift |-> 0, filterCutoff |-> 1000,
     lfoRate |-> 5, lfoDepth |-> 0, faderMode |-> "cutoff",
     sequencerTempo |-> 120,
     effects |-> [reverb |-> FALSE, delay |-> FALSE, distortion |-> FALSE],
     performance |-> [hold |-> FALSE, mono |-> FALSE, arp |-> FALSE,
                      arpDirection |-> "up"]]

\* stopNote(noteId, immediate) of the single-engine version: the release time
\* is synthSettings.release whatever immediate is
SingleStopNoteOn(N, s, ctx, id, immediate) ==
    IF ~ctx \/ ~IsActive(N.an, id) THEN N
    ELSE IF HoldSuppresses(s, N.hn, id, immediate) THEN N
    ELSE [N EXCEPT !.sched = @ \o ReleaseSchedule(id, s.release),
                   !.an = Remove(@, id),
                   !.hn = @ \ {id}]

\* forEach((_, noteId) => stopNote(noteId, immediate)) over the ids given
RECURSIVE SingleStopEach(_, _, _, _, _)
SingleStopEach(N, s, ctx, ids, immediate) ==
    IF ids = <<>> THEN N
    ELSE SingleStopEach(SingleStopNoteOn(N, s, ctx, Head(ids), immediate),
                        s, ctx, Tail(ids), immediate)

\* stopAllNotes(immediate) of the single-engine version
SingleStopAllNotesOn(N, s, ctx, immediate) ==
    SingleStopEach(N, s, ctx, N.an, immediate)

\* Variant for C25: the mono branch stopping the notes without the
\* immediate flag
SingleMonoStopsGently(N, s, ctx) ==
    IF s.performance.mono /\ Len(N.an) > 0
    THEN SingleStopEach(N, s, ctx, N.an, FALSE)
    ELSE N

\* if (mono && activeNotes.size > 0) activeNotes.forEach(stopNote(id, true))
SingleMonoStops(N, s, ctx) ==
    IF s.performance.mono /\ Len(N.an) > 0
    THEN SingleStopEach(N, s, ctx, N.an, TRUE)
    ELSE N

\* maxNotes = hold ? polyphony : polyphony - 2
SingleMaxNotes(s) ==
    IF s.performance.hold THEN s.polyphony ELSE s.polyphony - 2

\* The steal: activeNotes.keys().next().value is undefined on an empty
\* registry and stopNote(undefined, true) returns at once
SingleSteal(N, s, ctx) ==
    IF Len(N.an) >= SingleMaxNotes(s) /\ N.an # <<>>
    THEN SingleStopNoteOn(N, s, ctx, OldestNote(N.an), TRUE)
    ELSE N

\* The gain automation: maxGain = (waveformGains[waveform] || 0.8) * 0.8
SingleAttackSchedule(s, id) ==
    LET maxGain == ((IF s.waveform \in DOMAIN waveformGains
                     THEN waveformGains[s.waveform] ELSE 800) * 800) \div 1000
    IN << [kind |-> "cancelScheduledValues", node |-> id, time |-> 0],
          [kind |-> "setValueAtTime", node |-> id, value |-> SilenceFloor,
           time |-> 0],
          [kind |-> "exponentialRamp", node |-> id, value |-> maxGain * 1000,
           time |-> s.attack],
          [kind |-> "exponentialRamp", node |-> id,
           value |-> Max(maxGain * s.sustain, SilenceFloor),
           time |-> s.attack + s.decay] >>

\* playNote(note, duration) of the single-engine version; lfoGain.connect and
\* gainNode.connect(masterGainNode) throw on an undefined node
SinglePlayNoteOn(N, s, ctx, nodes, note, duration) ==
    IF ~ctx \/ ~NoteKnown(note) THEN [N |-> N, ret |-> Null]
    ELSE LET N1 == SingleSteal(SingleMonoStops(N, s, ctx), s, ctx)
             N2 == [N1 EXCEPT !.gid = NextId(@)]
             noteId == <<note, N2.gid>>
         IN IF nodes.lfoGain = 0 \/ nodes.masterGainNode = 0
            THEN [N |-> [N2 EXCEPT !.threw = TRUE], ret |-> Null]
            ELSE [N |-> [N2 EXCEPT !.sched = @ \o SingleAttackSchedule(s, noteId),
                                   !.an = Append(@, noteId),
                                   !.hn = IF s.performance.hold
                                          THEN @ \cup {noteId} ELSE @,
                                   !.timers = TimerFor(@, noteId, duration)],
                  ret |-> noteId]

\* playNote(note) of the single-engine version
SinglePlayNote(note) ==
    /\ globalId < MaxId
    /\ LET played == SinglePlayNoteOn(NoteBundle, synthSettings, audioContext,
                                      audioNodes, note, 0)
       IN /\ SetNotes(played.N)
          /\ call' = Call("playNote", note, Null, FALSE, 0, played.ret, played.N.threw)
    /\ UNCHANGED <<coreVars, storeVars, arpVars, seqVars>>

\* stopNote(noteId, immediate) of the single-engine version
SingleStopNote(id, immediate) ==
    /\ LET N == SingleStopNoteOn(NoteBundle, synthSettings, audioContext, id,
                                 immediate)
       IN /\ SetNotes(N)
          /\ call' = Call("stopNote", "", id, immediate, 0, Null, N.threw)
    /\ UNCHANGED <<coreVars, storeVars, arpVars, seqVars>>

\* controls.js: click on the hold button, with the single-engine stopAllNotes
SingleHoldBtn ==
    LET s == [synthSettings EXCEPT !.performance.hold = ~@]
        N == IF ~s.performance.hold
             THEN SingleStopAllNotesOn(NoteBundle, s, audioContext, FALSE)
             ELSE NoteBundle
    IN /\ synthSettings' = s
       /\ presets' = WriteThrough(presets, sharedRefs, "performance", s.performance)
       /\ SetNotes(N)
       /\ arpNotes' = IF ~s.performance.hold THEN <<>> ELSE arpNotes
       /\ call' = Call("holdBtn", "", Null, FALSE, 0, Null, N.threw)
       /\ UNCHANGED <<coreVars, defaultSynthSettings, sequencerData, sharedRefs,
                      arpIndex, lastArpNoteId, arpeggiatorInterval, arpTimers,
                      seqVars>>

\* controls.js: click on the mono button (performance.mono = !performance.mono)
MonoBtn ==
    /\ synthSettings' = [synthSettings EXCEPT !.performance.mono = ~@]
    /\ presets' = WriteThrough(presets, sharedRefs, "performance",
                               synthSettings'.performance)
    /\ call' = Call("monoBtn", "", Null, FALSE, 0, Null, FALSE)
    /\ sched' = <<>>
    /\ UNCHANGED <<coreVars, defaultSynthSettings, sequencerData, sharedRefs,
                   noteVars, arpVars, seqVars>>

\* Polyphony settings of the single-engine tree: one at which the headroom
\* margin leaves no voice, one at which it leaves MaxPolyphony voices
InitSingle ==
    /\ \E p \in {MaxPolyphony, MaxPolyphony + 2} :
          /\ synthSettings = SingleSettings(p)
          /\ defaultSynthSettings = SingleSettings(p)
    /\ InitRest

NextSingle ==
    \/ InitAudioEngine
    \/ \E note \in PlayedNotes : SinglePlayNote(note)
    \/ \E id \in KnownIds, immediate \in BOOLEAN : SingleStopNote(id, immediate)
    \/ SingleHoldBtn
    \/ MonoBtn

SpecSingle == InitSingle /\ [][NextSingle]_vars

\* C25: in the version with mono mode, when mono is on and playNote returns a
\* new id, the registry holds exactly that id (and the held set nothing else),
\* however many notes were registered before and whether or not they were held.
C25_MonoLeavesOneNote ==
    [][(call'.op = "playNote" /\ call'.ret # Null /\ synthSettings.performance.mono)
          => /\ activeNotes' = <<call'.ret>>
             /\ heldNotes' \subseteq {call'.ret}]_vars

\* C25 witness: with mono and hold on, the third playNote has stopped the two
\* notes registered before it and its id is the whole registry.
C25_Witness ==
    /\ call.op = "playNote"
    /\ synthSettings.performance.mono
    /\ synthSettings.performance.hold
    /\ globalId = 3
    /\ activeNotes = <<call.ret>>
    /\ Cardinality({i \in DOMAIN sched : sched[i].kind = "stop"}) = 2

\* The multi-engine note engine with a polyphony setting large enough for the
\* headroom margin to leave MaxPolyphony voices
InitHeadroom ==
    /\ synthSettings = InitialSettings(MaxPolyphony + 2)
    /\ defaultSynthSettings = JsonCopy(InitialSettings(MaxPolyphony + 2))
    /\ InitRest

NextHeadroom ==
    \/ InitAudioEngine
    \/ \E note \in PlayedNotes : PlayNote(note)
    \/ \E id \in KnownIds, immediate \in BOOLEAN : StopNote(id, immediate)
    \/ HoldBtn

SpecHeadroom == InitHeadroom /\ [][NextHeadroom]_vars

\* C26: the ceiling at which playNote steals a voice is polyphony - 2 while
\* hold is off and polyphony while hold is on: a playNote that finds the
\* registry at that ceiling removes the oldest note, so the registry holds at
\* most polyphony - 2 notes (hold off) or polyphony notes (hold on) when
\* playNote returns.
C26_HeadroomCeiling ==
    [][(call'.op = "playNote" /\ call'.ret # Null) =>
          LET ceiling == IF synthSettings.performance.hold
                         THEN synthSettings.polyphony
                         ELSE synthSettings.polyphony - 2
          IN /\ Len(activeNotes') <= ceiling
             /\ Len(activeNotes) >= ceiling
                  => Head(activeNotes) \notin Range(activeNotes')]_vars

\* C31: the release ramp a stop schedules (the ramp that follows the capture
\* of the current gain) lasts 0.01 s when the stop is immediate, as every stop
\* playNote itself makes is (voice steal, mono cut) and as stopNote(id, true)
\* is, and the configured release time otherwise.
C31_ImmediateReleaseIsShort ==
    [][\A i \in DOMAIN sched' :
          (sched'[i].kind = "setCurrentValueAtTime" /\ i + 1 \in DOMAIN sched')
             => sched'[i + 1].time =
                   IF call'.op = "playNote" \/ call'.immediate
                   THEN ImmediateRelease
                   ELSE synthSettings'.release]_vars

----------------------------------------------------------------------------
(* Preset store *)

\* The settings and the pattern against the slots
NextPreset ==
    \/ EngineBtn
    \/ \E i \in 0..MaxStep : ToggleStep(i)
    \/ \E index \in UsedSlots : SavePreset(index)
    \/ \E index \in UsedSlots : LoadPreset(index)

\* Init with the polyphony setting at MaxPolyphony
InitPreset == Init /\ synthSettings.polyphony = MaxPolyphony

SpecPreset == InitPreset /\ [][NextPreset]_vars

\* Loading a slot while notes are held and the arpeggiator runs
NextLoad ==
    \/ InitAudioEngine
    \/ PlayNote("C4")
    \/ HoldBtn
    \/ ArpBtn
    \/ AddToArp("C4")
    \/ ArpTick
    \/ EngineBtn
    \/ SavePreset(0)
    \/ LoadPreset(0)

SpecLoad == Init /\ [][NextLoad]_vars

\* C8: savePreset(k) immediately followed by loadPreset(k) leaves the live
\* Settings Tree (same keys, same values) and the Pattern as they were.
C8_SaveLoadRoundTrip ==
    [][(call.op = "savePreset" /\ call'.op = "loadPreset" /\ call'.slot = call.slot)
          => /\ synthSettings' = synthSettings
             /\ sequencerData' = sequencerData]_vars

\* C9: loadPreset on a slot that was never saved sets the live Settings Tree
\* to the default settings and the Pattern to 16 disabled steps.
C9_EmptySlotRestoresDefaults ==
    [][(call'.op = "loadPreset" /\ SlotIsEmpty(presets[call'.slot]))
          => /\ synthSettings' = defaultSynthSettings
             /\ sequencerData' = BlankPattern]_vars

\* C20: the id counter never decreases, every registered id carries a counter
\* value that is at most the counter, and an id that playNote returns (to a
\* caller or to the arpeggiator tick) carries the counter value plus one, which
\* becomes the counter: so it differs from every id returned before, removed
\* or not; loadPreset and the handlers that stop notes leave the counter alone.
C20_IdsNeverReused ==
    [][/\ globalId' >= globalId
       /\ \A id \in Range(activeNotes) \cup heldNotes : id[2] <= globalId
       /\ (call'.op \in {"playNote", "arpTick"} /\ call'.ret # Null)
            => /\ call'.ret[2] = globalId + 1
               /\ globalId' = globalId + 1
       /\ call'.op \in {"loadPreset", "holdBtn", "arpBtn"} => globalId' = globalId]_vars

\* C20 witness: the third playNote('C4') returned C4 with counter value 3 while
\* the notes with counter values 1 and 2 are gone from the registry, removed
\* without a steal.
C20_Witness ==
    /\ call.op = "playNote"
    /\ call.ret = <<"C4", 3>>
    /\ synthSettings.polyphony = 2
    /\ activeNotes = <<call.ret>>
    /\ globalId = 3

\* C10: right after loadPreset returns, the Active registry and the Held set
\* are empty, for an empty or saved slot and any state before the call.
C10_LoadPresetClearsNotes ==
    call.op = "loadPreset" => (activeNotes = <<>> /\ heldNotes = {})

\* C10 witness: loadPreset has just released at least two notes, one of them
\* the arpeggiator's, and the tree it leaves has hold on and the arpeggiator on.
C10_Witness ==
    /\ call.op = "loadPreset"
    /\ synthSettings.performance.hold
    /\ synthSettings.performance.arp
    /\ Cardinality({i \in DOMAIN sched : sched[i].kind = "stop"}) >= 2
    /\ activeNotes = <<>>

\* The slots against every in-place write to the live tree and pattern
NextSlots ==
    \/ EngineBtn
    \/ \E direction \in {"up", "down"} : ArpDirectionBtn(direction)
    \/ \E i \in 0..MaxStep : ToggleStep(i)
    \/ \E index \in UsedSlots : SavePreset(index)
    \/ \E index \in UsedSlots : LoadPreset(index)

SpecSlots == InitPreset /\ [][NextSlots]_vars

\* C23: savePreset(k) leaves the live tree, the live pattern and the other
\* three slots unchanged and makes slot k exactly the live tree with the live
\* pattern as its sequencer entry, whatever slot k held before; no other
\* operation (a write to the live tree or pattern after a save or a load, a
\* load itself) changes any slot.
C23_SlotIsIsolatedSnapshot ==
    [][/\ call'.op = "savePreset" =>
            /\ synthSettings' = synthSettings
            /\ sequencerData' = sequencerData
            /\ \A j \in (0..3) \ {call'.slot} : presets'[j] = presets[j]
            /\ presets'[call'.slot] =
                  [k \in DOMAIN synthSettings \cup {"sequencer"} |->
                      IF k = "sequencer" THEN sequencerData ELSE synthSettings[k]]
       /\ call'.op # "savePreset" => presets' = presets]_vars

\* C23 witness: slots 0 and 3 hold different snapshots and a saved slot was
\* loaded (the live tree carries its sequencer entry); after a write to the
\* live tree the engine, the direction and the pattern of the live state
\* differ from those of slot 0.
C23_Witness ==
    /\ call.op = "arpDirectionBtn"
    /\ ~SlotIsEmpty(presets[0])
    /\ ~SlotIsEmpty(presets[3])
    /\ presets[0] # presets[3]
    /\ "sequencer" \in DOMAIN presets[0]
    /\ "sequencer" \in DOMAIN synthSettings
    /\ presets[0].performance.arpDirection # synthSettings.performance.arpDirection
    /\ presets[0].sequencer # sequencerData
    /\ presets[0].engine # synthSettings.engine

----------------------------------------------------------------------------
(* Sequencer *)

\* Tempos of the Settings Tree: state.js has 120 and no control of this
\* version changes it; the others stand for a tree configured differently.
\* All divide 15000, so the divisions of the sequencer are exact in ms.
Tempos == {60, 120, 150}

InitSeq ==
    /\ \E tempo \in Tempos :
          /\ synthSettings =
                [InitialSettings(MaxPolyphony) EXCEPT !.sequencerTempo = tempo]
          /\ defaultSynthSettings = JsonCopy(synthSettings)
    /\ InitRest

\* The sequencer, its auto-stop timers and the engine button
NextSeq ==
    \/ InitAudioEngine
    \/ ToggleSequencer
    \/ SequencerLoop
    \/ TimerFire
    \/ \E i \in 0..MaxStep : ToggleStep(i)
    \/ EngineBtn

SpecSeq == InitSeq /\ [][NextSeq]_vars

\* playNote with and without a duration against the engine button
NextDrum ==
    \/ InitAudioEngine
    \/ ToggleSequencer
    \/ SequencerLoop
    \/ TimerFire
    \/ ToggleStep(0)
    \/ \E note \in PlayedNotes \cup {UnknownNote} : PlayNote(note)
    \/ EngineBtn

SpecDrum == InitPreset /\ [][NextDrum]_vars

\* The sequencer against the preset buttons
NextSeqLoad ==
    \/ InitAudioEngine
    \/ ToggleSequencer
    \/ SequencerLoop
    \/ \E i \in 0..MaxStep : ToggleStep(i)
    \/ SavePreset(0)
    \/ LoadPreset(0)

SpecSeqLoad == InitPreset /\ [][NextSeqLoad]_vars

\* C11: loadPreset stops a playing sequencer: when it returns the play flag is
\* off and the interval is cleared, and no sequencer tick that triggers a note
\* follows it before the user starts the sequencer again.
C11_LoadPresetStopsSequencer ==
    [][/\ call'.op = "loadPreset"
            => (~sequencerIsPlaying' /\ sequencerInterval' = 0)
       /\ call.op = "loadPreset"
            => ~(call'.op = "sequencerLoop" /\ call'.ret # Null)]_vars

\* The pattern with only step 0 enabled
OnlyStepZero == [i \in 0..15 |-> i = 0]

\* C13: starting the sequencer puts the cursor at 0; every tick finds the
\* cursor in 0..15, hands playNote the last-played note exactly when the
\* Pattern entry at that cursor is enabled (with the audio engine on and a
\* tonal engine, a note is registered exactly then), and moves the cursor to
\* the next step modulo 16; with only step 0 enabled a note is triggered
\* exactly on the ticks that find the cursor at 0.
C13_SequencerCursor ==
    [][/\ (call'.op = "toggleSequencer" /\ sequencerIsPlaying') => currentStep' = 0
       /\ call'.op = "sequencerLoop" =>
            /\ currentStep \in 0..15
            /\ call'.slot = currentStep
            /\ currentStep' = (currentStep + 1) % 16
            /\ (call'.note = lastNotePlayed) <=> sequencerData[currentStep]
            /\ (call'.note = "") <=> ~sequencerData[currentStep]
            /\ (audioContext /\ synthSettings.engine # "drum")
                 => ((call'.ret # Null) <=> sequencerData[currentStep])
            /\ sequencerData = OnlyStepZero
                 => ((call'.note # "") <=> currentStep = 0)]_vars

\* C13 witness: with only step 0 enabled and one note triggered so far, the
\* tick that found the cursor at 15 has triggered nothing and wrapped it to 0.
C13_Witness ==
    /\ call.op = "sequencerLoop"
    /\ call.slot = 15
    /\ call.note = ""
    /\ currentStep = 0
    /\ sequencerData = OnlyStepZero
    /\ globalId = 1

\* C14: the interval toggleSequencer sets is 60/tempo/4 s (125 ms at tempo
\* 120), and the auto-stop delay of a note a tick triggers is 60/tempo/2 s,
\* twice the tick interval of the tempo in force.
C14_SequencerTiming ==
    [][/\ (call'.op = "toggleSequencer" /\ sequencerIsPlaying') =>
            /\ sequencerInterval' * synthSettings.sequencerTempo * 4 = 60 * 1000
            /\ synthSettings.sequencerTempo = 120 => sequencerInterval' = 125
       /\ (call'.op = "sequencerLoop" /\ call'.ret # Null) =>
            \E tm \in timers' :
                /\ timers' \ timers = {tm}
                /\ tm.id = call'.ret
                /\ tm.delay * synthSettings.sequencerTempo * 2 = 60 * 1000
                /\ tm.delay = 2 * sequencerInterval]_vars

\* C14 witness: at tempo 150 the sequencer runs with a 100 ms interval and a
\* tick has triggered a note with a 200 ms auto-stop delay.
C14_Witness ==
    /\ call.op = "sequencerLoop"
    /\ synthSettings.sequencerTempo = 150
    /\ sequencerInterval = 100
    /\ [id |-> call.ret, delay |-> 200] \in timers

\* C19: while the engine is drum, a playNote call, for a name with a drum
\* voice or without one, with a duration (the sequencer's call) or without,
\* returns null, does not throw and leaves the registry, the held set, the id
\* counter and the set of auto-stop timers unchanged.
C19_DrumPlayIsUntracked ==
    [][((call'.op = "playNote" \/ (call'.op = "sequencerLoop" /\ call'.note # ""))
            /\ synthSettings.engine = "drum")
          => /\ call'.ret = Null
             /\ ~call'.threw
             /\ UNCHANGED <<activeNotes, heldNotes, globalId, timers>>
             /\ sched' = <<>>]_vars

\* C19 witness: with the audio engine on, the drum engine selected and the
\* registry at the polyphony ceiling, a tick on an enabled step has triggered
\* the kick and nothing else changed.
C19_Witness ==
    /\ call.op = "sequencerLoop"
    /\ call.note = "C4"
    /\ audioContext
    /\ synthSettings.engine = "drum"
    /\ lastDrumSound = "kick"
    /\ Len(activeNotes) = synthSettings.polyphony
    /\ call.ret = Null

\* The sequencer and its auto-stop timers against the hold button
NextSeqHold ==
    \/ InitAudioEngine
    \/ ToggleSequencer
    \/ SequencerLoop
    \/ TimerFire
    \/ ToggleStep(0)
    \/ HoldBtn

SpecSeqHold == InitPreset /\ [][NextSeqHold]_vars

\* C36: once the auto-stop timer of a note started with a duration has fired,
\* the note is no longer in the registry, whatever the hold flag was when the
\* note was started and whatever it is when the timer fires.
C36_AutoStopRemovesNote ==
    [][call'.op = "timer" => call'.id \notin Range(activeNotes')]_vars

\* The sequencer's notes and their timers against what removes a note before
\* its timer fires: voice steals, stopAllNotes and loadPreset
NextStale ==
    \/ InitAudioEngine
    \/ ToggleSequencer
    \/ SequencerLoop
    \/ TimerFire
    \/ ToggleStep(0)
    \/ StopAllNotes(TRUE)
    \/ LoadPreset(0)
    \/ EngineBtn

SpecStale == InitPreset /\ [][NextStale]_vars

\* C37: an auto-stop timer that fires for an id no longer in the registry
\* changes neither the registry nor the held set, schedules nothing and does
\* not throw, also while a newer note of the same name is registered.
C37_StaleTimerIsNoOp ==
    [][(call'.op = "timer" /\ call'.id \notin Range(activeNotes))
          => /\ UNCHANGED <<activeNotes, heldNotes>>
             /\ sched' = <<>>
             /\ ~call'.threw]_vars

\* C37 witness: the timer of a note removed earlier has fired while a newer
\* note of the same name is registered, and that note is still there.
C37_Witness ==
    /\ call.op = "timer"
    /\ call.id \notin Range(activeNotes)
    /\ \E id \in Range(activeNotes) : id[1] = call.id[1] /\ id[2] > call.id[2]
    /\ sched = <<>>

----------------------------------------------------------------------------
(* Arpeggiator *)

\* Keys pressed while the arpeggiator is on
ArpKeys == {"C4", "E4", "G4"}

\* The arpeggiator with keys pressed in any order and both directions
NextArp ==
    \/ InitAudioEngine
    \/ ArpBtn
    \/ \E direction \in {"up", "down"} : ArpDirectionBtn(direction)
    \/ \E note \in ArpKeys : AddToArp(note)
    \/ ArpTick

SpecArp == InitPreset /\ [][NextArp]_vars

\* C12: the arp button starts the cursor at 0, and a tick with N held notes and
\* the cursor at i hands playNote the note that has exactly i held notes below
\* it for 'up' and exactly i held notes above it for 'down', whatever the press
\* order; it triggers that one note and moves the cursor to (i + 1) mod N, so
\* N ticks over a fixed list walk it in pitch order and wrap.
C12_ArpPitchOrder ==
    [][/\ (call'.op = "arpBtn" /\ synthSettings'.performance.arp) => arpIndex' = 0
       /\ (call'.op = "arpTick" /\ arpNotes # <<>>) =>
            LET n == call'.note
                held == Range(arpNotes)
                below == {m \in held : noteFrequencies[m] < noteFrequencies[n]}
                above == {m \in held : noteFrequencies[m] > noteFrequencies[n]}
            IN /\ n \in held
               /\ synthSettings.performance.arpDirection = "up"
                    => Cardinality(below) = arpIndex
               /\ synthSettings.performance.arpDirection = "down"
                    => Cardinality(above) = arpIndex
               /\ arpIndex' = (arpIndex + 1) % Len(arpNotes)
               /\ arpNotes' = arpNotes
               /\ audioContext =>
                    /\ call'.ret = <<n, globalId + 1>>
                    /\ lastArpNoteId' = call'.ret
                    /\ Range(activeNotes') \ Range(activeNotes) = {call'.ret}]_vars

\* C12 witness: with G4, E4, C4 pressed in that order and direction 'up', the
\* third sounding tick has played G4 and the cursor has wrapped to 0.
C12_Witness ==
    /\ call.op = "arpTick"
    /\ arpNotes = <<"G4", "E4", "C4">>
    /\ synthSettings.performance.arpDirection = "up"
    /\ call.note = "G4"
    /\ call.ret = <<"G4", 3>>
    /\ arpIndex = 0

\* Keys pressed and released while the arpeggiator is on, next to a note
\* (C4) that only direct playNote calls start
ArpOnlyKeys == {"E4", "G4"}

\* The arpeggiator with keys pressed and released, hold, and notes started
\* outside the arpeggiator
NextArpKeys ==
    \/ InitAudioEngine
    \/ PlayNote("C4")
    \/ HoldBtn
    \/ ArpBtn
    \/ \E direction \in {"up", "down"} : ArpDirectionBtn(direction)
    \/ \E note \in ArpOnlyKeys : AddToArp(note)
    \/ \E note \in ArpOnlyKeys : StopNoteHandlerArp(note)
    \/ ArpTick

SpecArpKeys == InitPreset /\ [][NextArpKeys]_vars

\* The registered notes an arpeggiator tick started: in SpecArpKeys the keys
\* of ArpOnlyKeys reach playNote through the tick only
ArpTriggered(an) == {id \in Range(an) : id[1] \in ArpOnlyKeys}

\* C27: at most one note started by an arpeggiator tick is registered at any
\* time, and a tick removes the note the previous tick started from the
\* registry and the held set, also with hold on and the note held, before it
\* starts the next one.
C27_OneArpNote ==
    [][/\ Cardinality(ArpTriggered(activeNotes)) <= 1
       /\ Cardinality(ArpTriggered(activeNotes')) <= 1
       /\ (call'.op = "arpTick" /\ lastArpNoteId # Null) =>
            /\ ~IsActive(activeNotes', lastArpNoteId)
            /\ lastArpNoteId \notin heldNotes'
            /\ ArpTriggered(activeNotes') \subseteq {call'.ret}]_vars

\* C27 witness: with hold on, a tick has released the held note of the tick
\* before it and started the next one, next to a held note that playNote
\* started directly.
C27_Witness ==
    /\ call.op = "arpTick"
    /\ synthSettings.performance.hold
    /\ call.ret # Null
    /\ lastArpNoteId = call.ret
    /\ heldNotes = Range(activeNotes)
    /\ Len(activeNotes) = 2
    /\ Cardinality(ArpTriggered(activeNotes)) = 1
    /\ \E i \in DOMAIN sched :
          sched[i].kind = "stop" /\ sched[i].node[1] \in ArpOnlyKeys

\* C28: a tick that finds the held-note list non-empty, also after keys were
\* released and the list shrank, finds the cursor within the list, hands
\* playNote a note of the list and, with the audio engine on, starts it.
C28_TickPlaysHeldNote ==
    [][(call'.op = "arpTick" /\ arpNotes # <<>>) =>
          /\ arpIndex \in 0..(Len(arpNotes) - 1)
          /\ call'.note \in Range(arpNotes)
          /\ audioContext =>
                (call'.ret # Null /\ call'.ret[1] = call'.note)]_vars

\* The preset buttons and the arp button against a running arpeggiator
NextArpLoad ==
    \/ InitAudioEngine
    \/ PlayNote("C4")
    \/ HoldBtn
    \/ ArpBtn
    \/ \E note \in ArpOnlyKeys : AddToArp(note)
    \/ \E note \in ArpOnlyKeys : StopNoteHandlerArp(note)
    \/ ArpTick
    \/ SavePreset(0)
    \/ LoadPreset(0)

SpecArpLoad == InitPreset /\ [][NextArpLoad]_vars

\* C29: when stopArpeggiator runs while the timer exists (the arp button
\* switched off, or inside loadPreset), the held-note list is empty, the
\* cursor 0, the last-triggered id null and the registry empty afterwards; the
\* arp button leaves the timer cancelled, and a tick only fires while the
\* timer exists, so none triggers a note until the next start.
C29_StopArpeggiatorClears ==
    [][/\ (call'.op = "arpBtn" /\ arpeggiatorInterval) =>
            /\ ~arpeggiatorInterval'
            /\ arpNotes' = <<>>
            /\ arpIndex' = 0
            /\ lastArpNoteId' = Null
            /\ activeNotes' = <<>>
       /\ (call'.op = "loadPreset" /\ arpeggiatorInterval) =>
            /\ arpNotes' = <<>>
            /\ arpIndex' = 0
            /\ lastArpNoteId' = Null
            /\ activeNotes' = <<>>
       /\ ~arpeggiatorInterval => call'.op # "arpTick"]_vars

\* C29 witness: the arp button has stopped the arpeggiator with hold on; the
\* note of the last tick and a held note started outside the arpeggiator were
\* released and the registry is empty.
C29_Witness ==
    /\ call.op = "arpBtn"
    /\ ~arpeggiatorInterval
    /\ synthSettings.performance.hold
    /\ activeNotes = <<>>
    /\ arpNotes = <<>>
    /\ lastArpNoteId = Null
    /\ \E i, j \in DOMAIN sched :
          /\ sched[i].kind = "stop" /\ sched[i].node[1] \in ArpOnlyKeys
          /\ sched[j].kind = "stop" /\ sched[j].node[1] = "C4"

\* C30: right after startArpeggiator has started the timer, from the arp
\* button or at the end of loadPreset, the held-note list is empty and the
\* cursor is 0.
C30_StartFindsEmptyList ==
    [][((call'.op = "arpBtn" /\ ~arpeggiatorInterval /\ arpeggiatorInterval')
          \/ (call'.op = "loadPreset" /\ arpeggiatorInterval'))
          => (arpNotes' = <<>> /\ arpIndex' = 0)]_vars

\* C30 witness: loadPreset has stopped an arpeggiator that had triggered a
\* note and has started it again from a saved slot.
C30_Witness ==
    /\ call.op = "loadPreset"
    /\ ~SlotIsEmpty(presets[0])
    /\ arpeggiatorInterval
    /\ synthSettings.performance.arp
    /\ arpNotes = <<>>
    /\ arpIndex = 0
    /\ \E i \in DOMAIN sched :
          sched[i].kind = "stop" /\ sched[i].node[1] \in ArpOnlyKeys

\* The hold button next to the keyboard, the arpeggiator and the engine button
NextHold ==
    \/ InitAudioEngine
    \/ PlayNote("C4")
    \/ HoldBtn
    \/ ArpBtn
    \/ EngineBtn
    \/ \E note \in ArpOnlyKeys : AddToArp(note)
    \/ ArpTick

SpecHold == InitPreset /\ [][NextHold]_vars

\* C33: when a click on the hold button turns hold off, the registry, the held
\* set and the arpeggiator's list of held notes are empty once the handler has
\* returned.
C33_HoldOffReleasesAll ==
    [][(call'.op = "holdBtn" /\ synthSettings.performance.hold
                             /\ ~synthSettings'.performance.hold)
          => /\ activeNotes' = <<>>
             /\ heldNotes' = {}
             /\ arpNotes' = <<>>]_vars

\* The callers of playNote and stopNote together: direct calls (stopNote with
\* the id of a registered note), the hold, arp and engine buttons, the
\* arpeggiator and loadPreset (of a slot never saved to)
NextHeld ==
    \/ InitAudioEngine
    \/ PlayNote("C4")
    \/ \E id \in Range(activeNotes), immediate \in BOOLEAN : StopNote(id, immediate)
    \/ \E immediate \in BOOLEAN : StopAllNotes(immediate)
    \/ HoldBtn
    \/ ArpBtn
    \/ EngineBtn
    \/ AddToArp("E4")
    \/ ArpTick
    \/ LoadPreset(0)

SpecHeld == InitPreset /\ [][NextHeld]_vars

\* C35: every id in the held set is a key of the registry.
C35_HeldWithinActive == heldNotes \subseteq Range(activeNotes)

\* C35 witness: under hold a playNote has stolen a voice, and the held set is
\* not empty and holds the new id.
C35_Witness ==
    /\ call.op = "playNote"
    /\ call.ret # Null
    /\ synthSettings.performance.hold
    /\ \E i \in DOMAIN sched : sched[i].kind = "stop"
    /\ call.ret \in heldNotes
    /\ Cardinality(heldNotes) < Len(activeNotes)

\* The arpeggiator's timer against everything that starts or stops it or
\* changes the flag: the arp, engine and hold buttons and the preset buttons,
\* slot 0 saved to and loaded, slot 3 never saved to
NextArpTimer ==
    \/ InitAudioEngine
    \/ ArpBtn
    \/ EngineBtn
    \/ HoldBtn
    \/ AddToArp("E4")
    \/ ArpTick
    \/ SavePreset(0)
    \/ \E index \in UsedSlots : LoadPreset(index)

SpecArpTimer == InitPreset /\ [][NextArpTimer]_vars

\* C38: the arpeggiator holds a timer exactly when performance.arp is true,
\* and the number of interval timers alive is 1 then and 0 otherwise.
C38_ArpTimerMatchesFlag ==
    /\ arpeggiatorInterval <=> synthSettings.performance.arp
    /\ arpTimers = IF arpeggiatorInterval THEN 1 ELSE 0

\* C38 witness: a slot saved with the arpeggiator off was loaded while the
\* arpeggiator was running and a note it had triggered was sounding; the load
\* stopped the note and left no timer.
C38_Witness ==
    /\ call.op = "loadPreset"
    /\ ~SlotIsEmpty(presets[call.slot])
    /\ ~synthSettings.performance.arp
    /\ ~arpeggiatorInterval
    /\ arpTimers = 0
    /\ \E i \in DOMAIN sched : sched[i].kind = "stop"

\* The effect buttons, the first user gesture and the preset buttons
NextEffects ==
    \/ InitAudioEngine
    \/ \E effectType \in DOMAIN WetLevel : EffectBtn(effectType)
    \/ SavePreset(0)
    \/ \E index \in UsedSlots : LoadPreset(index)

SpecEffects == InitPreset /\ [][NextEffects]_vars

\* C39: once the audio engine is initialized, the wet-gain target of each
\* effect is its fixed level (reverb 0.3, delay 0.25, distortion 0.6) when its
\* flag in the Settings Tree is on and 0 when it is off.
C39_WetMatchesFlag ==
    audioContext =>
        /\ wetGain.reverb = IF synthSettings.effects.reverb THEN 300 ELSE 0
        /\ wetGain.delay = IF synthSettings.effects.delay THEN 250 ELSE 0
        /\ wetGain.distortion = IF synthSettings.effects.distortion THEN 600 ELSE 0

\* The keys of the on-screen keyboard played by touch while the engine, the
\* hold and the arp buttons are used
SpecKeys ==
    InitPreset /\ [][
    \/ InitAudioEngine
    \/ \E note \in {"C4", "E4"}, primary \in BOOLEAN : StartNoteHandler(note, primary)
    \/ \E note \in {"C4", "E4"} : StopNoteHandler(note)
    \/ EngineBtn
    \/ HoldBtn
    \/ ArpBtn
    ]_vars

\* The same with the handlers of the version of keyboard.js that plays the
\* drum sounds from the keys
SpecKeysDrum ==
    InitPreset /\ [][
    \/ InitAudioEngine
    \/ \E note \in {"C4", "E4"}, primary \in BOOLEAN :
          StartNoteHandlerDrum(note, primary)
    \/ \E note \in {"C4", "E4"} : StopNoteHandlerDrum(note)
    \/ EngineBtn
    \/ HoldBtn
    \/ ArpBtn
    ]_vars

\* C40: with hold off and the arpeggiator off, the release of a key removes
\* the note that key started from the Active registry, whatever engine is
\* selected at the time of the release.
C40_ReleaseRemovesNote ==
    [][(/\ call'.op = "stopNoteHandler"
        /\ ~synthSettings'.performance.hold
        /\ ~synthSettings'.performance.arp
        /\ call'.id # Null)
          => call'.id \notin Range(activeNotes')]_vars

----------------------------------------------------------------------------
(* The sample-based drum engine (drum-engine.js) over the Settings Tree it   *)
(* reads (drum.kit among the kits of samplePaths, drum.params)               *)

\* samplePaths, scaled down to two kits of two sounds each (the code has four
\* kits of eight sounds)
SampleKits == {"studio", "808"}
SampleSounds == {"kick", "snare"}

\* loadAllSamples() up to its await: nothing while a load is running or once
\* the table has keys; otherwise the flag is set, every kit gets an empty
\* entry and one loadSample promise is started per kit and sound
LoadAllSamplesOn(loading, buffers, pending) ==
    IF loading \/ DOMAIN buffers # {}
    THEN [loading |-> loading, buffers |-> buffers, pending |-> pending]
    ELSE [loading |-> TRUE,
          buffers |-> [k \in SampleKits |-> {}],
          pending |-> SampleKits \X SampleSounds]

\* Variant for C34: playDrumSound without the isLoading test
DrumSoundBufferWhileLoading(loading, ref, buffers, kit, soundName) ==
    IF ~ref THEN Null
    ELSE IF kit \in DOMAIN buffers /\ soundName \in buffers[kit]
         THEN <<kit, soundName>>
         ELSE Null

\* playDrumSound(soundName): the buffer it starts a source for, Null when it
\* returns at once (loading, no context) or finds no buffer
\* (audioBuffers[kit]?.[soundName] undefined)
DrumSoundBuffer(loading, ref, buffers, kit, soundName) ==
    IF loading \/ ~ref THEN Null
    ELSE IF kit \in DOMAIN buffers /\ soundName \in buffers[kit]
         THEN <<kit, soundName>>
         ELSE Null

\* initDrumEngine(): setupDrumEffects() and loadAllSamples() once the context
\* exists; setupDrumEffects reads synthSettings.drum.params
InitDrumEngine ==
    /\ audioContextRef' = audioContext
    /\ LET threw == audioContext /\ "params" \notin DOMAIN synthSettings.drum
           r == IF audioContext /\ ~threw
                THEN LoadAllSamplesOn(isLoading, audioBuffers, pendingSamples)
                ELSE [loading |-> isLoading, buffers |-> audioBuffers,
                      pending |-> pendingSamples]
       IN /\ isLoading' = r.loading
          /\ audioBuffers' = r.buffers
          /\ pendingSamples' = r.pending
          /\ call' = Call("initDrumEngine", "", Null, FALSE, 0, Null, threw)
    /\ sched' = <<>>
    /\ UNCHANGED <<audioContext, audioNodes, wetGain, currentNoteId, activeKeys,
                   storeVars, noteVars, arpVars, seqVars>>

\* One loadSample promise settles: with a buffer (ok), or with null after the
\* catch block logged a failed fetch, a bad status or a decoding error.  The
\* then-callback stores a buffer, and the continuation of Promise.all, which
\* runs once the last promise has settled, clears the flag.  The call record
\* keeps what loadSample returned.
SampleSettled(kit, sound, ok) ==
    /\ <<kit, sound>> \in pendingSamples
    /\ audioBuffers' = IF ok THEN [audioBuffers EXCEPT ![kit] = @ \cup {sound}]
                       ELSE audioBuffers
    /\ pendingSamples' = pendingSamples \ {<<kit, sound>>}
    /\ isLoading' = IF pendingSamples' = {} THEN FALSE ELSE isLoading
    /\ call' = Call("loadSample", sound, <<kit, sound>>, FALSE, 0,
                    IF ok THEN <<kit, sound>> ELSE Null, FALSE)
    /\ sched' = <<>>
    /\ UNCHANGED <<audioContext, audioNodes, wetGain, currentNoteId, activeKeys,
                   audioContextRef, storeVars, noteVars, arpVars, seqVars>>

\* playDrumSound(soundName); the call record keeps the buffer played
PlayDrumSound(soundName) ==
    /\ LET buffer == DrumSoundBuffer(isLoading, audioContextRef, audioBuffers,
                                     synthSettings.drum.kit, soundName)
       IN call' = Call("playDrumSound", soundName, Null, FALSE, 0, buffer,
                       buffer # Null /\ "params" \notin DOMAIN synthSettings.drum)
    /\ sched' = <<>>
    /\ UNCHANGED <<coreVars, storeVars, noteVars, arpVars, seqVars>>

\* Click on an instrument button while the engine is drum:
\* synthSettings.drum.kit = options[index]
KitBtn(kit) ==
    /\ synthSettings.engine = "drum"
    /\ synthSettings' = [synthSettings EXCEPT !.drum.kit = kit]
    /\ presets' = WriteThrough(presets, sharedRefs, "drum", synthSettings'.drum)
    /\ call' = Call("kitBtn", kit, Null, FALSE, 0, Null, FALSE)
    /\ sched' = <<>>
    /\ UNCHANGED <<coreVars, defaultSynthSettings, sequencerData, sharedRefs,
                   noteVars, arpVars, seqVars>>

\* The Settings Tree of the version drum-engine.js belongs to (drum.kit,
\* drum.params)
InitSample ==
    /\ synthSettings =
          [InitialSettings(MaxPolyphony) EXCEPT
              !.drum = [kit |-> "studio",
                        params |-> [tune |-> 500, gain |-> 800, reverb |-> 0,
                                    bitcrush |-> 0, delay |-> 0]],
              !.filterCutoff = 1000]
    /\ defaultSynthSettings = synthSettings
    /\ InitRest

NextSample ==
    \/ InitAudioEngine
    \/ InitDrumEngine
    \/ \E kit \in SampleKits, sound \in SampleSounds, ok \in BOOLEAN :
          SampleSettled(kit, sound, ok)
    \/ \E sound \in SampleSounds : PlayDrumSound(sound)
    \/ EngineBtn
    \/ \E kit \in SampleKits : KitBtn(kit)

\* Every fetch and every decodeAudioData settles in the end
SpecSample ==
    /\ InitSample
    /\ [][NextSample]_vars
    /\ WF_vars(\E kit \in SampleKits, sound \in SampleSounds, ok \in BOOLEAN :
                  SampleSettled(kit, sound, ok))

\* C34: a playDrumSound that arrives while the samples are loading, or for a
\* kit and sound without a buffer, starts no source, changes no state and does
\* not throw, while one for a loaded sample after the load starts that buffer;
\* a loadSample that fails leaves the buffers stored so far and the other
\* pending loads as they were, one that succeeds stores its buffer; the flag
\* is set exactly while loads are pending, and a load that has started ends.
C34_DropsUnloadedDrumTriggers ==
    /\ [][/\ call'.op = "playDrumSound" =>
              LET kit == synthSettings.drum.kit
                  playable == /\ audioContextRef
                              /\ ~isLoading
                              /\ kit \in DOMAIN audioBuffers
                              /\ call'.note \in audioBuffers[kit]
              IN /\ ~call'.threw
                 /\ call'.ret = IF playable THEN <<kit, call'.note>> ELSE Null
                 /\ UNCHANGED <<coreVars, storeVars, noteVars>>
          /\ call'.op = "loadSample" =>
              /\ pendingSamples' = pendingSamples \ {call'.id}
              /\ audioBuffers' =
                    IF call'.ret = Null THEN audioBuffers
                    ELSE [audioBuffers EXCEPT ![call'.id[1]] = @ \cup {call'.id[2]}]
          /\ isLoading' <=> pendingSamples' # {}]_vars
    /\ (isLoading ~> ~isLoading)

\* C34 witness: the load has ended with the studio kick failed and the studio
\* snare loaded, and a trigger of the kick on the studio kit was dropped.
C34_Witness ==
    /\ call.op = "playDrumSound"
    /\ call.note = "kick"
    /\ call.ret = Null
    /\ ~call.threw
    /\ audioContextRef
    /\ ~isLoading
    /\ synthSettings.drum.kit = "studio"
    /\ audioBuffers["studio"] = {"snare"}

----------------------------------------------------------------------------
(* Audio core *)

\* initAudioEngine on any platform, against the note engine
NextInit ==
    \/ InitAudioEngineCall
    \/ PlayNote("C4")
    \/ \E g \in 1..MaxId, immediate \in BOOLEAN : StopNote(<<"C4", g>>, immediate)
    \/ \E immediate \in BOOLEAN : StopAllNotes(immediate)
    \/ EngineBtn

SpecInit == Init /\ [][NextInit]_vars

\* Every object of the audio core built exactly once
BuiltOnce ==
    [context |-> 1, masterGainNode |-> 1, analyserNode |-> 1, lfo |-> 1,
     lfoGain |-> 1, lfoStarts |-> 1, effectsChain |-> 1]

\* C16: once a call of initAudioEngine has succeeded, a later call throws
\* nothing and changes nothing: the same context, master gain, analyser, LFO
\* and effects chain are kept and the LFO is not started again.
C16_InitIsIdempotent ==
    [][(call'.op = "initAudioEngine" /\ audioContext /\ audioNodes.effectsChain > 0)
          => /\ UNCHANGED <<coreVars, storeVars, noteVars, arpVars, seqVars>>
             /\ audioNodes' = BuiltOnce
             /\ call'.note = ""]_vars

\* C16 witness: initAudioEngine was called while a note it made possible is
\* registered, and every object of the audio core exists exactly once.
C16_Witness ==
    /\ call.op = "initAudioEngine"
    /\ activeNotes # <<>>
    /\ audioContext
    /\ audioNodes = BuiltOnce

\* C17: a call of initAudioEngine whose try block threw leaves the context
\* unset, and as long as no call has succeeded playNote, stopNote and
\* stopAllNotes return without throwing and change nothing.
C17_FailedInitIsInert ==
    [][/\ (call'.op = "initAudioEngine" /\ call'.note \in FailPoints)
            => ~audioContext'
       /\ (call'.op \in {"playNote", "stopNote", "stopAllNotes"}
              /\ audioNodes.effectsChain = 0)
            => /\ ~call'.threw
               /\ call'.ret = Null
               /\ UNCHANGED noteVars]_vars

====
